---------------------------- MODULE Spec2Model ----------------------------
(***************************************************************************)
(* A model of the fast recorded-game header parser, src/mgz/fast/header.py *)
(* (parse() and the stages it calls), and of the CLI wrapper that calls it *)
(* (src/mgz/cli/parse_header.py).                                          *)
(*                                                                         *)
(* The decompressed header is a sequence of bytes (0..255); the cursor of  *)
(* the io.BytesIO that wraps it is the variable pos.  Python indices are   *)
(* 0-based: byte i of a buffer d is d[i + 1].  Every stage is a chain of   *)
(* cursor operations on a record c = [pos, err, lo, short]: pos is the     *)
(* cursor, err the exception raised so far ("none" if none), lo the lowest *)
(* position the cursor has been moved to since the stage began, and short  *)
(* whether some read so far returned fewer bytes than it was asked for.    *)
(*                                                                         *)
(* save versions are kept in hundredths (25.22 is 2522): the parser rounds *)
(* save to two decimals before it compares it with any threshold.          *)
(***************************************************************************)
EXTENDS Integers, Sequences, FiniteSets, TLC

VARIABLES
    raw,        \* the recorded-game file handed to parse()
    pos,        \* the cursor of header
    pc,         \* where parse() is
    err,        \* the exception travelling to parse()'s except clause
    raised,     \* the exception that left parse() ("none" if none)
    cli,        \* what main() of parse_header did with the outcome
    version,    \* Version variant classified by parse_version
    save,       \* rounded save version, in hundredths
    num_players,\* the i8 read by parse_metadata
    de,         \* the DE record (or None)
    hd,         \* the HD record (or None)
    players,    \* the (player, device) pairs built by parse_players so far
    lobby,      \* the lobby record (or None)
    result,     \* the record parse() returned (None until it returns)
    loc,        \* the locals of the stage that is running
    start,      \* the cursor position at which the running stage began
    lo,         \* the lowest cursor position reached by the running stage
    short,      \* whether a read has returned fewer bytes than requested
    dump        \* the hex dump of the except clause (or None)

vars == <<raw, pos, pc, err, raised, cli, version, save, num_players,
          de, hd, players, lobby, result, loc, start, lo, short, dump>>

\* the decompressed header bytes: what zlib.decompress returns for raw
header == raw.hdr

-----------------------------------------------------------------------------
(* Bounds of the model's inputs.                                           *)

\* the metadata block's num_players ranges over 1..MaxPlayers in well-formed inputs
MaxPlayers == 2
\* the starting-age and ending-age raw values range over 0..MaxAge
MaxAge == 3
\* well-formed inputs are also cut by 1..MaxTail bytes at their end
MaxTail == 6
\* well-formed inputs are also cut to k/NCuts of their length, k in 0..NCuts-1
NCuts == 12

-----------------------------------------------------------------------------
(* Integers and bytes.                                                     *)

Min2(a, b) == IF a < b THEN a ELSE b
Max2(a, b) == IF a > b THEN a ELSE b

\* Values at or above Huge are kept as Huge: such a value is only ever used as
\* a byte count or a loop count, and no buffer of the model is that long.
Huge == 2 ^ 30

\* a * b for a, b >= 0, saturating at Huge
Mul(a, b) ==
    IF a <= 0 \/ b <= 0 THEN 0
    ELSE IF a > Huge \div b THEN Huge ELSE a * b

\* python d[i], for 0 <= i < len(d)
B(d, i) == d[i + 1]

\* python d[a:b] for a, b >= 0
Slice(d, a, b) == SubSeq(d, a + 1, Min2(b, Len(d)))

Z(n) == [i \in 1..n |-> 0]
Fill(n, v) == [i \in 1..n |-> v]

\* struct '<H', '<h', '<I', '<i', '<b' at index i of d
U16(d, i) == B(d, i) + 256 * B(d, i + 1)
I16(d, i) == IF U16(d, i) >= 32768 THEN U16(d, i) - 65536 ELSE U16(d, i)
U32(d, i) ==
    IF B(d, i + 3) >= 64 THEN Huge
    ELSE B(d, i) + 256 * B(d, i + 1) + 65536 * B(d, i + 2) + 16777216 * B(d, i + 3)
I32(d, i) ==
    IF B(d, i + 3) < 128 THEN U32(d, i)
    ELSE IF B(d, i + 3) < 192 THEN 0 - Huge
    ELSE 0 - ((255 - B(d, i)) + 256 * (255 - B(d, i + 1)) + 65536 * (255 - B(d, i + 2))
              + 16777216 * (255 - B(d, i + 3)) + 1)
I8(d, i) == IF B(d, i) >= 128 THEN B(d, i) - 256 ELSE B(d, i)

\* little-endian encodings, for building inputs
u16(v) == <<v % 256, v \div 256>>
u32(v) == <<v % 256, (v \div 256) % 256, (v \div 65536) % 256, v \div 16777216>>
i8(v) == <<IF v < 0 THEN v + 256 ELSE v>>

\* round-half-even of num / 2^k, for num >= 0
RoundShift(num, k) ==
    IF k >= 32 THEN 0
    ELSE IF k = 0 THEN num
    ELSE LET half == 2 ^ (k - 1)
             q == IF k = 31 THEN 0 ELSE num \div (2 ^ k)
             r == IF k = 31 THEN num ELSE num % (2 ^ k)
         IN  IF r > half \/ (r = half /\ q % 2 = 1) THEN q + 1 ELSE q


-----------------------------------------------------------------------------
(* The cursor: io.BytesIO's read, seek and tell, and mgz.util.unpack.      *)

NoErr == "none"

\* python's None, and a value that may be None
None == [none |-> TRUE]
Some(v) == [some |-> v]

\* a read that moves the cursor by n even when fewer than n bytes remain
read_unclamped(c, n) ==
    IF c.err # NoErr THEN c
    ELSE IF n < 0 THEN [c EXCEPT !.pos = Max2(c.pos, Len(header))]
    ELSE [c EXCEPT !.pos = c.pos + n, !.short = c.short \/ c.pos + n > Len(header)]

\* header.read(n): at most n bytes, fewer when fewer remain (never an error);
\* a negative n reads to the end; a cursor beyond the end stays where it is.
read(c, n) ==
    IF c.err # NoErr THEN c
    ELSE IF n < 0 THEN [c EXCEPT !.pos = Max2(c.pos, Len(header))]
    ELSE IF c.pos + n > Len(header)
         THEN [c EXCEPT !.pos = Max2(c.pos, Len(header)), !.short = TRUE]
         ELSE [c EXCEPT !.pos = c.pos + n]

\* unpack(fmt, header) with calcsize(fmt) = n: struct.unpack of header.read(n),
\* which raises struct.error when fewer than n bytes were read.
unpack(c, n) ==
    IF c.err # NoErr THEN c
    ELSE IF n < 0 THEN [c EXCEPT !.err = "struct.error"]
    ELSE IF c.pos + n > Len(header)
         THEN [c EXCEPT !.pos = Max2(c.pos, Len(header)), !.err = "struct.error",
                        !.short = TRUE]
         ELSE [c EXCEPT !.pos = c.pos + n]

\* header.seek(t): a negative t raises ValueError; a t beyond the end is kept
seek(c, t) ==
    IF c.err # NoErr THEN c
    ELSE IF t < 0 THEN [c EXCEPT !.err = "ValueError"]
    ELSE [c EXCEPT !.pos = t, !.lo = Min2(c.lo, t)]

\* header.seek(delta, 1): relative to the cursor, never below 0
seek_cur(c, delta) ==
    IF c.err # NoErr THEN c
    ELSE [c EXCEPT !.pos = Max2(0, c.pos + delta), !.lo = Min2(c.lo, Max2(0, c.pos + delta))]

\* the exception e raised at cursor c (raise, or a failing library call)
raise(c, e) == IF c.err # NoErr THEN c ELSE [c EXCEPT !.err = e]

\* the values unpack decodes at position p of header (0 where the bytes are
\* missing: unpack has raised there and the value is never used)
Has(p, n) == p >= 0 /\ p + n <= Len(header)
u8h(p) == IF Has(p, 1) THEN B(header, p) ELSE 0
i8h(p) == IF Has(p, 1) THEN I8(header, p) ELSE 0
i16h(p) == IF Has(p, 2) THEN I16(header, p) ELSE 0
u32h(p) == IF Has(p, 4) THEN U32(header, p) ELSE 0
i32h(p) == IF Has(p, 4) THEN I32(header, p) ELSE 0
\* '<Q': a u64 is Huge as soon as one of its four high bytes is set
u64h(p) ==
    IF ~Has(p, 8) THEN 0
    ELSE IF \E k \in 4..7 : B(header, p + k) # 0 THEN Huge ELSE U32(header, p)
\* header bytes [p, p + n), as header.read(n) returns them at cursor p
bytesh(p, n) == IF n <= 0 \/ p >= Len(header) THEN <<>> ELSE Slice(header, p, p + n)

-----------------------------------------------------------------------------
(* Floats.                                                                 *)

\* round(x, 2) * 100 for the finite f32 x with little-endian bytes b
\* (NaN and the infinities, exponent 255, are not among the model's inputs)
F32Hundredths(b) ==
    LET neg == b[4] >= 128
        e == (b[4] % 128) * 2 + (b[3] \div 128)
        m == (b[3] % 128) * 65536 + b[2] * 256 + b[1]
        k == 150 - e
        mag == IF e = 0 THEN 0
               ELSE IF k <= 0 THEN Huge
               ELSE Min2(Huge, RoundShift((8388608 + m) * 100, k))
    IN  IF neg THEN 0 - mag ELSE mag

\* the f32 -1.0
MinusOne == <<0, 0, 128, 191>>

\* round(s / (1 << 16), 2) * 100 for the u32 s
NewSaveHundredths(s) == IF s > 21000000 THEN Huge ELSE RoundShift(s * 100, 16)


-----------------------------------------------------------------------------
(* Searching: bytes.find and re.search over header.                        *)

\* The patterns the parser searches for.  A literal pattern is its bytes and
\* the set of (1-based) places where the regular expression has a '.', which
\* under re.DOTALL matches any byte; bytes.find has no such places.
Lit(b) == [kind |-> "lit", b |-> b, wild |-> {}]
Re(b, wild) == [kind |-> "lit", b |-> b, wild |-> wild]

PLAYER_END == Fill(8, 255) \o <<46>> \o Z(16) \o <<11>>
CLASSES == {10, 30, 70, 80, 20}
BLOCK_END == <<0, 11>>
\* the fingerprint of SKIP_OBJECTS
SKIP_OBJECTS == <<30, 0, 135, 2>>

\* REGEXES[i]: class byte, player byte i, four bytes of which the first two
\* are neither ff ff nor 00 00, ff ff ff ff, and a byte that is not ff
ObjRe(i) == [kind |-> "obj", player |-> i]

PLen(pat) == IF pat.kind = "obj" THEN 11 ELSE Len(pat.b)

\* a match that takes any four bytes behind the player byte
MatchP_any_id(pat, i) ==
    IF pat.kind = "obj"
    THEN /\ B(header, i) \in CLASSES
         /\ B(header, i + 1) = pat.player
         /\ \A k \in 6..9 : B(header, i + k) = 255
         /\ B(header, i + 10) # 255
    ELSE \A k \in 1..Len(pat.b) : k \in pat.wild \/ B(header, i + k - 1) = pat.b[k]

\* whether pat matches at index i of header (i + PLen(pat) <= Len(header))
MatchP(pat, i) ==
    IF pat.kind = "obj"
    THEN /\ B(header, i) \in CLASSES
         /\ B(header, i + 1) = pat.player
         /\ ~(B(header, i + 2) = 255 /\ B(header, i + 3) = 255)
         /\ ~(B(header, i + 2) = 0 /\ B(header, i + 3) = 0)
         /\ \A k \in 6..9 : B(header, i + k) = 255
         /\ B(header, i + 10) # 255
    ELSE \A k \in 1..Len(pat.b) : k \in pat.wild \/ B(header, i + k - 1) = pat.b[k]

Minimum(S) == CHOOSE i \in S : \A j \in S : i <= j

\* positions are searched a chunk at a time
Chunk == 2 ^ 10

\* the leftmost index i >= a of header at which pat matches with
\* i + PLen(pat) <= b (and within header), or -1
RECURSIVE First(_, _, _)
First(pat, a, b) ==
    LET last == Min2(b, Len(header)) - PLen(pat)
    IN  IF a > last THEN -1
        ELSE LET S == {i \in a..Min2(a + Chunk - 1, last) : MatchP(pat, i)}
             IN  IF S # {} THEN Minimum(S) ELSE First(pat, a + Chunk, b)

\* header[base:].find(b, from): an index relative to base, or -1
find(b, base, from) ==
    LET i == First(Lit(b), base + Max2(from, 0), Len(header))
    IN  IF i < 0 THEN -1 ELSE i - base

-----------------------------------------------------------------------------
(* Steps of parse().  Each action is one step of the program; the chain it
   computes ends in a cursor record that Step installs.                    *)

Versions == {"AOK", "AOC", "USERPATCH15", "HD", "DE", "MCP"}

\* the cursor as the running stage finds it
Cur == [pos |-> pos, err |-> NoErr, lo |-> lo, short |-> short]

\* the cursor as a stage finds it when it begins
Begin == [pos |-> pos, err |-> NoErr, lo |-> pos, short |-> short]

\* for _ in range(count): unpack(fmt, header), with calcsize(fmt) = size > 0
unpackN(c, size, count) ==
    IF c.err # NoErr \/ count <= 0 THEN c ELSE unpack(c, Mul(size, count))

\* install cursor c; continue at next, or at the except clause if c raised
Step(c, next) ==
    /\ pos' = c.pos
    /\ lo' = c.lo
    /\ short' = c.short
    /\ err' = c.err
    /\ pc' = IF c.err = NoErr THEN next ELSE "except"

\* decompress (with the prefix read and zlib.decompress as given by raw)
decompress ==
    /\ pc = "decompress"
    /\ IF raw.kind = "short"
       THEN /\ err' = "struct.error" /\ pc' = "except" /\ UNCHANGED pos
       ELSE IF raw.kind = "corrupt"
       THEN /\ err' = "zlib.error" /\ pc' = "except" /\ UNCHANGED pos
       ELSE /\ pos' = 0 /\ pc' = "parse_version" /\ err' = NoErr
    /\ UNCHANGED <<raw, raised, cli, version, save, num_players, de, hd, players,
                   lobby, result, loc, start, lo, short, dump>>

\* get_version(game, save, log): the external classification table
get_version(game, sv, log) == raw.cls

\* parse_version
parse_version ==
    /\ pc = "parse_version"
    /\ LET c0 == IF raw.kind = "nolog" THEN raise(Cur, "struct.error") ELSE Cur
           c1 == unpack(c0, 12)
           game == bytesh(pos, 7)
           f == bytesh(pos + 8, 4)
           new == c1.err = NoErr /\ f = MinusOne
           c2 == IF new THEN unpack(c1, 4) ELSE c1
           s == u32h(pos + 12)
           sv == IF new THEN (IF s = 37 THEN 3700 ELSE NewSaveHundredths(s))
                 ELSE IF c1.err = NoErr THEN F32Hundredths(f) ELSE 0
           c3 == IF c2.err = NoErr /\ \E k \in 1..7 : game[k] > 127
                 THEN raise(c2, "ValueError") ELSE c2
       IN  /\ Step(c3, "check_version")
           /\ save' = IF c3.err = NoErr THEN sv ELSE save
           /\ version' = IF c3.err = NoErr THEN get_version(game, sv, raw.log) ELSE version
    /\ UNCHANGED <<raw, raised, cli, num_players, de, hd, players,
                   lobby, result, loc, start, dump>>

\* a version check that also lets AOC through
SupportedAndAOC == {"USERPATCH15", "DE", "HD", "AOC"}

\* parse(): the version check
Supported == {"USERPATCH15", "DE", "HD"}
check_version ==
    /\ pc = "check_version"
    /\ IF version \notin Supported
       THEN /\ err' = "RuntimeError" /\ pc' = "except"
       ELSE /\ err' = NoErr /\ pc' = "parse_de"
    /\ start' = pos /\ lo' = pos
    /\ UNCHANGED <<raw, pos, raised, cli, version, save, num_players, de, hd,
                   players, lobby, result, loc, short, dump>>


-----------------------------------------------------------------------------
(* Strings.                                                                *)

\* a de_string that reads the length before the magic
de_string_length_first(c) ==
    LET c1 == unpack(c, 2)
        c2 == read(c1, 2)
        got == bytesh(c.pos + 2, 2)
        c3 == IF c2.err = NoErr /\ got # <<96, 10>> THEN raise(c2, "ValueError") ELSE c2
    IN  unpack(c3, i16h(c.pos))
\* de_string: the magic 60 0a, an i16 length, then length bytes
de_string(c) ==
    LET c1 == read(c, 2)
        got == bytesh(c.pos, 2)
        c2 == IF c1.err = NoErr /\ got # <<96, 10>> THEN raise(c1, "ValueError") ELSE c1
        c3 == unpack(c2, 2)
    IN  unpack(c3, i16h(c.pos + 2))
\* the bytes de_string returns when called at position p
de_string_value(p) == bytesh(p + 4, i16h(p + 2))

\* hd_string: an i16 length, the magic 60 0a, then length bytes
hd_string(c) ==
    LET c1 == unpack(c, 2)
        c2 == read(c1, 2)
        got == bytesh(c.pos + 2, 2)
        c3 == IF c2.err = NoErr /\ got # <<96, 10>> THEN raise(c2, "ValueError") ELSE c2
    IN  unpack(c3, i16h(c.pos))
hd_string_value(p) == bytesh(p + 4, i16h(p))

\* bytes.decode succeeds on ASCII; the model's inputs hold no byte above 127
\* inside a decoded string, and a string that has one is taken as not UTF-8
decodes(b) == \A k \in 1..Len(b) : b[k] < 128

\* len(s.split(':')) and s.split(':')[k] (k from 0) for a byte string s
Colons(s) == {k \in 1..Len(s) : s[k] = 58}
NParts(s) == Cardinality(Colons(s)) + 1
Part(s, k) ==
    LET C == Colons(s)
        nth(m) == IF m = 0 THEN 0
                  ELSE IF m > Cardinality(C) THEN Len(s) + 1
                  ELSE CHOOSE i \in C : Cardinality({j \in C : j < i}) = m - 1
    IN  SubSeq(s, nth(k) + 1, nth(k + 1) - 1)

\* a string_block that reads entries while 0 < crc < 255 and leaves the
\* cursor in front of the crc that ends the block
RECURSIVE string_block_peeking(_)
string_block_peeking(cs) ==
    LET c == cs.c
        c1 == unpack(c, 4)
        crc == u32h(c.pos)
        c2 == de_string(c1)
        str == de_string_value(c1.pos)
        c3 == IF c2.err = NoErr /\ ~decodes(str) THEN raise(c2, "ValueError") ELSE c2
    IN  IF c1.err # NoErr THEN [c |-> c1, strings |-> cs.strings]
        ELSE IF ~(255 > crc /\ crc > 0) THEN [c |-> c, strings |-> cs.strings]
        ELSE IF c3.err # NoErr THEN [c |-> c3, strings |-> cs.strings]
        ELSE string_block_peeking([c |-> c3, strings |-> Append(cs.strings, str)])

\* string_block: entries are read until a crc with 0 < crc < 255 is read.
\* The result is the cursor and the byte strings read.
RECURSIVE string_block(_)
string_block(cs) ==
    LET c == cs.c
        c1 == unpack(c, 4)
        crc == u32h(c.pos)
        c2 == de_string(c1)
        str == de_string_value(c1.pos)
        c3 == IF c2.err = NoErr /\ ~decodes(str) THEN raise(c2, "ValueError") ELSE c2
    IN  IF c1.err # NoErr THEN [c |-> c1, strings |-> cs.strings]
        ELSE IF 255 > crc /\ crc > 0 THEN [c |-> c1, strings |-> cs.strings]
        ELSE IF c3.err # NoErr THEN [c |-> c3, strings |-> cs.strings]
        ELSE string_block([c |-> c3, strings |-> Append(cs.strings, str)])

-----------------------------------------------------------------------------
(* parse_de                                                                *)

stay == <<raw, raised, cli, version, save, dump>>

\* a timestamp that stays as it was read first
first_timestamp(old, at) == old
\* lines 743-745: from save 37 on the timestamp is read again at the end
last_timestamp(old, at) == IF save >= 3700 THEN Some(u32h(at)) ELSE old

\* lines 483-553: the gate and the settings before the player slots
parse_de ==
    /\ pc = "parse_de"
    /\ start' = pos
    /\ IF version # "DE"
       THEN /\ de' = None /\ pc' = "parse_hd" /\ lo' = pos
            /\ UNCHANGED <<pos, err, loc, short>>
       ELSE LET c0 == Begin
                c1 == IF save >= 2522 THEN unpack(c0, 4) ELSE c0        \* build
                c2 == IF save >= 2616 THEN unpack(c1, 4) ELSE c1        \* timestamp
                c3 == unpack(c2, 12 + 4)                               \* pad, dlc_count
                dlc_count == u32h(c2.pos + 12)
                c4 == unpackN(c3, 4, dlc_count)                        \* dlc_ids
                \* 4 pad, map_dimension or difficulty_id, 4 pad, rms_map_id, 4 pad,
                \* victory_type_id, starting_resources_id, starting_age_id,
                \* ending_age_id, 12 pad, speed, treaty_length, population_limit,
                \* num_players
                c5 == unpack(c4, 4 + 4 + 4 + 4 + 4 + 4 + 4 + 4 + 4 + 12 + 4 + 4 + 4 + 4)
                \* 14 pad, difficulty_id (>= 61.5), random_positions and
                \* all_technologies, 1 pad, ten flags
                c6 == unpack(c5, 14 + (IF save >= 6150 THEN 1 ELSE 0) + 2 + 1 + 10)
                c7 == read(c6, 12 + (IF save >= 2506 THEN 1 ELSE 0)
                                  + (IF save > 5000 THEN 1 ELSE 0))
                np == u32h(c4.pos + 60)
            IN  /\ Step(c7, "de_players")
                /\ loc' = [build |-> IF save >= 2522 THEN Some(u32h(c0.pos)) ELSE None,
                           timestamp |-> IF save >= 2616 THEN Some(u32h(c1.pos)) ELSE None,
                           dlc_ids |-> [at |-> c3.pos, count |-> dlc_count],
                           starting_age_id |-> u32h(c4.pos + 28),
                           ending_age_id |-> u32h(c4.pos + 32),
                           num_players |-> np,
                           n |-> IF 6630 > save /\ save >= 3700 THEN np ELSE 8,
                           i |-> 0, players |-> 0, strings |-> <<>>,
                           guid |-> <<>>, lobby |-> <<>>, mod |-> <<>>]
                /\ UNCHANGED de
    /\ UNCHANGED <<stay, num_players, hd, players, lobby, result>>

\* lines 555-607: one player slot
de_players ==
    /\ pc = "de_players" /\ loc.i < loc.n
    /\ LET c0 == Cur
           \* 4 pad, color_id, 2 pad, team_id, 9 pad, civilization_id
           c1 == unpack(c0, 4 + 4 + 2 + 1 + 9 + 4)
           c2 == IF save >= 6150 THEN unpack(c1, 4) ELSE c1            \* custom_civ_count
           custom_civ_count == u32h(c1.pos)
           c3 == IF save >= 6150 /\ save >= 6300 /\ custom_civ_count > 0
                 THEN unpackN(c2, 4, custom_civ_count) ELSE c2
           c4 == read(de_string(c3), 1)
           c5 == de_string(c4)                                         \* ai_name
           c6 == IF save >= 6630 THEN de_string(c5) ELSE c5            \* censored_name
           c7 == de_string(c6)                                         \* name
           \* type, profile_id, 4 pad, number, 8 pad (< 25.22), prefer_random
           c8 == unpack(c7, 4 + 12 + (IF save < 2522 THEN 8 ELSE 0) + 1)
           c9 == read(c8, 1 + (IF save >= 2506 THEN 8 ELSE 0)
                            + (IF save >= 6430 THEN 4 ELSE 0))
           c10 == IF save >= 6720 THEN de_string(c9) ELSE c9
       IN  /\ Step(c10, "de_players")
           /\ loc' = IF c10.err = NoErr
                     THEN [loc EXCEPT !.i = loc.i + 1, !.players = loc.players + 1]
                     ELSE loc
    /\ UNCHANGED <<stay, num_players, de, hd, players, lobby, result, start>>

\* lines 608-612: after the player slots
de_after_players ==
    /\ pc = "de_players" /\ loc.i >= loc.n
    /\ Step(read(Cur, 12), "de_slots")
    /\ loc' = [loc EXCEPT !.i = 0,
                          !.n = IF 6630 > save /\ save >= 3700
                                THEN 8 - loc.num_players ELSE 0]
    /\ UNCHANGED <<stay, num_players, de, hd, players, lobby, result, start>>

\* lines 613-623: one empty slot
de_slots ==
    /\ pc = "de_slots" /\ loc.i < loc.n
    /\ LET c1 == read(Cur, (IF save >= 6150 THEN 4 ELSE 0) + 12)
           c2 == read(de_string(c1), 1)
           c3 == de_string(de_string(c2))
           c4 == read(c3, 38 + (IF save >= 6430 THEN 4 ELSE 0))
       IN  /\ Step(c4, "de_slots")
           /\ loc' = [loc EXCEPT !.i = loc.i + 1]
    /\ UNCHANGED <<stay, num_players, de, hd, players, lobby, result, start>>

\* lines 625-634: rated .. spec_delay
de_after_slots ==
    /\ pc = "de_slots" /\ loc.i >= loc.n
    /\ LET \* 4 pad, rated, allow_specs, visibility, hidden_civs, 1 pad, spec_delay
           c1 == unpack(Cur, 4 + 1 + 1 + 4 + 1 + 1 + 4)
       IN  Step(read(c1, 1), "de_strings")
    /\ loc' = [loc EXCEPT !.i = 0]
    /\ UNCHANGED <<stay, num_players, de, hd, players, lobby, result, start>>

\* lines 636-640: one of the 21 string blocks; 8 bytes are skipped after the first
de_strings ==
    /\ pc = "de_strings" /\ loc.i < 21
    /\ LET r == string_block([c |-> Cur, strings |-> loc.strings])
           c1 == IF loc.i = 0 THEN read(r.c, 8) ELSE r.c
       IN  /\ Step(c1, "de_strings")
           /\ loc' = [loc EXCEPT !.i = loc.i + 1, !.strings = r.strings]
    /\ UNCHANGED <<stay, num_players, de, hd, players, lobby, result, start>>

\* lines 641-651: the unknown list and the count of unknown entries
de_after_strings ==
    /\ pc = "de_strings" /\ loc.i >= 21
    /\ LET c1 == read(Cur, 4)
           c2 == IF save < 2522 THEN read(c1, 236) ELSE c1
           c3 == IF save >= 2522 THEN seek_cur(c2, -4) ELSE c2
           c4 == IF save >= 2522 THEN unpack(c3, 4) ELSE c3
           l == u32h(c3.pos)
           c5 == IF save >= 2522 THEN read(c4, Mul(l, 4)) ELSE c4
           c6 == unpack(c5, 8)
       IN  /\ Step(c6, "de_unknown")
           /\ loc' = [loc EXCEPT !.i = 0, !.n = u64h(c5.pos)]
    /\ UNCHANGED <<stay, num_players, de, hd, players, lobby, result, start>>

\* lines 652-655: one unknown entry
de_unknown ==
    /\ pc = "de_unknown" /\ loc.i < loc.n
    /\ Step(read(de_string(read(Cur, 4)), 4), "de_unknown")
    /\ loc' = [loc EXCEPT !.i = loc.i + 1]
    /\ UNCHANGED <<stay, num_players, de, hd, players, lobby, result, start>>

\* lines 656-711: guid, lobby, mod and the skips keyed on save
de_guid ==
    /\ pc = "de_unknown" /\ loc.i >= loc.n
    /\ LET c1 == IF save >= 2502 THEN read(Cur, 8) ELSE Cur
           c2 == read(c1, 16)                                          \* guid
           c3 == de_string(c2)                                         \* lobby
           c4 == IF save >= 2522 THEN read(c3, 8) ELSE c3
           c5 == de_string(c4)                                         \* mod
           c6 == read(c5, 33 + (IF save >= 2006 THEN 1 ELSE 0)
                             + (IF save >= 2016 THEN 8 ELSE 0)
                             + (IF save >= 2506 THEN 21 ELSE 0)
                             + (IF save >= 2522 THEN 4 ELSE 0)
                             + (IF save >= 2616 THEN 8 ELSE 0)
                             + (IF save >= 3700 THEN 3 ELSE 0)
                             + (IF save > 5000 THEN 8 ELSE 0)
                             + (IF save >= 6150 THEN 1 ELSE 0)
                             + (IF save >= 6300 THEN 5 ELSE 0))
           c7 == IF save >= 6630 THEN unpack(c6, 4) ELSE c6
           cc == u32h(c6.pos)
           c8 == IF save >= 6630 THEN read(c7, 12 + Mul(cc, 4)) ELSE c7
           c9 == de_string(c8)
           c10 == IF save >= 6720 THEN de_string(de_string(c9)) ELSE c9
           c11 == read(c10, 8)
           c12 == IF save >= 3700 THEN unpack(c11, 8) ELSE c11         \* timestamp, x
       IN  /\ Step(c12, "de_return")
           /\ loc' = [loc EXCEPT !.guid = bytesh(c1.pos, 16),
                                 !.lobby = de_string_value(c2.pos),
                                 !.mod = de_string_value(c4.pos),
                                 !.timestamp = last_timestamp(loc.timestamp, c11.pos)]
    /\ UNCHANGED <<stay, num_players, de, hd, players, lobby, result, start>>

\* de.starting_age_id and de.ending_age_id from the raw u32
age_id(rawage) == IF rawage > 0 THEN rawage - 2 ELSE 0

\* whether the loop over the string table raises IndexError: s[1] of a
\* one-part string that is 'SUBSCRIBEDMODS', s[3] of a RANDOM_MAPS string
\* with fewer than four parts
SUBSCRIBEDMODS == <<83, 85, 66, 83, 67, 82, 73, 66, 69, 68, 77, 79, 68, 83>>
RANDOM_MAPS == <<82, 65, 78, 68, 79, 77, 95, 77, 65, 80, 83>>
rms_raises(strings) ==
    \E k \in 1..Len(strings) :
        LET s == strings[k]
        IN  /\ Part(s, 0) = SUBSCRIBEDMODS
            /\ \/ NParts(s) < 2
               \/ Part(s, 1) = RANDOM_MAPS /\ NParts(s) < 4

\* lines 712-755: the DE record
de_return ==
    /\ pc = "de_return"
    /\ LET e == IF rms_raises(loc.strings) THEN "IndexError"
                ELSE IF Len(loc.guid) # 16 THEN "ValueError"           \* uuid.UUID
                ELSE IF ~decodes(loc.lobby) \/ ~decodes(loc.mod) THEN "ValueError"
                ELSE NoErr
       IN  /\ Step(raise(Cur, e), "parse_hd")
           /\ de' = IF e # NoErr THEN de
                    ELSE [players |-> loc.players,
                          starting_age_id |-> age_id(loc.starting_age_id),
                          ending_age_id |-> age_id(loc.ending_age_id),
                          build |-> loc.build,
                          timestamp |-> loc.timestamp,
                          dlc_ids |-> [k \in 1..loc.dlc_ids.count |->
                                          u32h(loc.dlc_ids.at + 4 * (k - 1))]]
    /\ UNCHANGED <<stay, num_players, hd, players, lobby, result, loc, start>>

-----------------------------------------------------------------------------
(* parse_hd                                                                *)

\* a gate that reads the HD block of every HD save
parse_hd_skips_by_version == version # "HD"
\* line 761: parse_hd returns None unless the version is HD and save > 12.34
parse_hd_skips == version # "HD" \/ save <= 1234

\* lines 761-771: the gate and the reads before the eight player slots
parse_hd ==
    /\ pc = "parse_hd"
    /\ start' = pos
    /\ IF parse_hd_skips
       THEN /\ hd' = None /\ pc' = "parse_metadata" /\ lo' = pos
            /\ UNCHANGED <<pos, err, loc, short>>
       ELSE LET c1 == unpack(read(Begin, 12), 4)
                dlc_count == u32h(pos + 12)
                c2 == read(c1, Mul(dlc_count, 4))
                c3 == unpack(read(c2, 4), 8)                  \* difficulty_id, map_id
            IN  /\ Step(read(c3, 80), "hd_players")
                /\ loc' = [i |-> 0, players |-> 0, guid |-> <<>>,
                           lobby |-> <<>>, mod |-> <<>>]
                /\ UNCHANGED hd
    /\ UNCHANGED <<stay, num_players, de, players, lobby, result>>

\* lines 772-793: one of the eight player slots; a slot without a name is dropped
hd_players ==
    /\ pc = "hd_players" /\ loc.i < 8
    /\ LET \* 4 pad, color_id, 12 pad, civilization_id
           c1 == unpack(Cur, 4 + 4 + 12 + 4)
           c2 == hd_string(read(hd_string(c1), 1))
           c3 == hd_string(c2)                                \* name
           name == hd_string_value(c2.pos)
           c4 == read(unpack(c3, 4 + 12), 8)                  \* 4 pad, steam_id, number
       IN  /\ Step(c4, "hd_players")
           /\ loc' = IF c4.err # NoErr THEN loc
                     ELSE [loc EXCEPT !.i = loc.i + 1,
                                      !.players = IF name # <<>> THEN loc.players + 1
                                                  ELSE loc.players]
    /\ UNCHANGED <<stay, num_players, de, hd, players, lobby, result, start>>

\* lines 795-820: guid, lobby, mod, and the HD record
hd_return ==
    /\ pc = "hd_players" /\ loc.i >= 8
    /\ LET c1 == read(hd_string(read(Cur, 26)), 8)
           c2 == read(hd_string(c1), 8)
           c3 == read(hd_string(c2), 8)
           c4 == read(c3, 16)                                 \* guid
           c5 == hd_string(c4)                                \* lobby
           c6 == hd_string(c5)                                \* mod
           c7 == read(hd_string(read(c6, 8)), 4)
           guid == bytesh(c3.pos, 16)
           e == IF Len(guid) # 16 THEN "ValueError"           \* uuid.UUID
                ELSE IF ~decodes(hd_string_value(c4.pos))
                        \/ ~decodes(hd_string_value(c5.pos)) THEN "ValueError"
                ELSE NoErr
           c8 == raise(c7, e)
       IN  /\ Step(c8, "parse_metadata")
           /\ hd' = IF c8.err # NoErr THEN hd ELSE [players |-> loc.players]
    /\ UNCHANGED <<stay, num_players, de, players, lobby, result, loc, start>>

-----------------------------------------------------------------------------
(* parse_metadata                                                          *)

\* the length of the zero run that ends the AI data
AiRun == 4096

\* a search that takes the whole of the leftmost run of at least 4096 zeros:
\* the index behind the last zero of that run, or -1
ai_end_of_run(a) ==
    LET S == {s \in a..(Len(header) - AiRun) :
                  /\ s = a \/ B(header, s - 1) # 0
                  /\ \A k \in 0..(AiRun - 1) : B(header, s + k) = 0}
        s0 == Minimum(S)
    IN  IF S = {} THEN -1
        ELSE Minimum({e \in (s0 + AiRun)..Len(header) :
                         e = Len(header) \/ B(header, e) # 0})

\* re.search(b'\00' * 4096, header[a:]).end(), as an index of header, or -1.
\* The leftmost run starts at a or just after a non-zero byte.
ai_end(a) ==
    LET S == {s \in a..(Len(header) - AiRun) :
                  /\ s = a \/ B(header, s - 1) # 0
                  /\ \A k \in 0..(AiRun - 1) : B(header, s + k) = 0}
    IN  IF S = {} THEN -1 ELSE Minimum(S) + AiRun

parse_metadata ==
    /\ pc = "parse_metadata"
    /\ start' = pos
    /\ LET c1 == unpack(Begin, 4)
           ai == u32h(pos)
           offset == c1.pos
           found == ai_end(offset)
           c2 == IF c1.err # NoErr \/ ai <= 0 THEN c1
                 ELSE IF found < 0 THEN raise(read(c1, -1), "RuntimeError")
                 ELSE seek(read(c1, -1), found)
           \* '<24xf17xhbxb': game_speed, owner_id, num_players, cheats
           c3 == unpack(c2, 24 + 4 + 17 + 2 + 1 + 1 + 1)
           np == i8h(c2.pos + 24 + 4 + 17 + 2)
           c4 == IF save < 6150 THEN read(c3, 60) ELSE read(c3, 24 + np * 4)
       IN  /\ Step(c4, "parse_map")
           /\ num_players' = IF c4.err = NoErr THEN np ELSE num_players
    /\ UNCHANGED <<stay, de, hd, players, lobby, result, loc>>

-----------------------------------------------------------------------------
(* parse_map                                                               *)

\* The product of the u32 at p and the u32 at q of header, as eight bytes
\* (little-endian): python integers do not wrap.
Prod64(p, q) ==
    LET t(i, k) == IF k - i >= 0 /\ k - i <= 3 THEN u8h(p + i) * u8h(q + k - i) ELSE 0
        conv(k) == t(0, k) + t(1, k) + t(2, k) + t(3, k)
        r[k \in 0..7] == IF k = 0 THEN conv(0) ELSE conv(k) + (r[k - 1] \div 256)
    IN  [k \in 1..8 |-> r[k - 1] % 256]

\* a >= b for eight-byte little-endian numbers
Ge64(a, b) ==
    \/ a = b
    \/ \E k \in 1..8 : a[k] > b[k] /\ \A j \in (k + 1)..8 : a[j] = b[j]

\* the eight-byte number as an integer, Huge when it is Huge or more
Val64(l) ==
    IF l[4] >= 64 \/ \E k \in 5..8 : l[k] # 0 THEN Huge
    ELSE l[1] + 256 * l[2] + 65536 * l[3] + 16777216 * l[4]

\* header.read(n) for an n that may not fit a C ssize_t: OverflowError
read_wide(c, overflow, n) ==
    IF c.err # NoErr THEN c
    ELSE IF overflow THEN raise(c, "OverflowError") ELSE read(c, n)

\* 2^62 - 1024 and 2^63 - 1275: the least tile_num for which
\* 2048 + tile_num * 2, and 1275 + tile_num, reach 2^63
ZoneWideHD == <<0, 252, 255, 255, 255, 255, 255, 63>>
ZoneWide == <<5, 251, 255, 255, 255, 255, 255, 127>>

\* calcsize of tile_format
tile_size == IF version = "DE" THEN (IF save >= 6200 THEN 10 ELSE 9) ELSE 4

\* lines 271-283: the sizes
parse_map ==
    /\ pc = "parse_map"
    /\ start' = pos
    /\ LET c1 == IF version = "DE" THEN read(Begin, 8) ELSE Begin
           c2 == unpack(c1, 12)                               \* size_x, size_y, zone_num
       IN  /\ Step(c2, "map_zones")
           /\ loc' = [tile_num |-> Prod64(c1.pos, c1.pos + 4),
                      n |-> u32h(c1.pos + 8), i |-> 0]
    /\ UNCHANGED <<stay, num_players, de, hd, players, lobby, result>>

\* lines 284-291: one zone
map_zones ==
    /\ pc = "map_zones" /\ loc.i < loc.n
    /\ LET tn == Val64(loc.tile_num)
           c1 == IF version \in {"DE", "HD"}
                 THEN read_wide(Cur, Ge64(loc.tile_num, ZoneWideHD), 2048 + Mul(tn, 2))
                 ELSE read_wide(Cur, Ge64(loc.tile_num, ZoneWide), 1275 + tn)
           c2 == unpack(c1, 4)                                \* num_floats
           c3 == read(read(c2, Mul(u32h(c1.pos), 4)), 4)
       IN  Step(c3, "map_zones")
    /\ loc' = [loc EXCEPT !.i = loc.i + 1]
    /\ UNCHANGED <<stay, num_players, de, hd, players, lobby, result, start>>

\* lines 293-299: all_visible, the tiles, num_data
map_tiles ==
    /\ pc = "map_zones" /\ loc.i >= loc.n
    /\ LET c1 == unpack(Cur, 2)                               \* all_visible
           c2 == unpackN(c1, tile_size, Val64(loc.tile_num))
           c3 == unpack(c2, 4 + 4)                            \* num_data
           num_data == u32h(c2.pos)
           c4 == read(c3, Mul(num_data, 4))
       IN  /\ Step(c4, "map_obs")
           /\ loc' = [loc EXCEPT !.i = 0, !.n = num_data]
    /\ UNCHANGED <<stay, num_players, de, hd, players, lobby, result, start>>

\* lines 300-302: one list of obstructions
map_obs ==
    /\ pc = "map_obs" /\ loc.i < loc.n
    /\ LET c1 == unpack(Cur, 4)                               \* num_obs
       IN  Step(read(c1, Mul(u32h(pos), 8)), "map_obs")
    /\ loc' = [loc EXCEPT !.i = loc.i + 1]
    /\ UNCHANGED <<stay, num_players, de, hd, players, lobby, result, start>>

\* lines 303-316: the visibility maps and restore_time
map_return ==
    /\ pc = "map_obs" /\ loc.i >= loc.n
    /\ LET c1 == unpack(Cur, 8)                               \* x2, y2
           xy == Prod64(pos, pos + 4)
           n == Mul(Val64(xy), 4)
           c2 == read_wide(c1, xy[8] >= 32, n)
           c3 == IF save >= 6150 THEN read_wide(c2, xy[8] >= 32, n) ELSE c2
       IN  Step(unpack(c3, 4), "parse_players")               \* restore_time
    /\ UNCHANGED <<stay, num_players, de, hd, players, lobby, result, loc, start>>

-----------------------------------------------------------------------------
(* parse_players: parse_mod, parse_player, object_block                    *)

\* int(x) for the f32 x with little-endian bytes b: the value, Huge when it
\* is Huge or more, or the exception int() raises on an infinity or a NaN
F32Int(b) ==
    LET neg == b[4] >= 128
        e == (b[4] % 128) * 2 + (b[3] \div 128)
        m == (b[3] % 128) * 65536 + b[2] * 256 + b[1]
        mag == IF e < 127 THEN 0
               ELSE IF e <= 150 THEN (8388608 + m) \div (2 ^ (150 - e))
               ELSE IF e >= 157 THEN Huge
               ELSE Min2(Huge, (8388608 + m) * (2 ^ (e - 150)))
    IN  IF e = 255 THEN [err |-> IF m = 0 THEN "OverflowError" ELSE "ValueError", v |-> 0]
        ELSE [err |-> NoErr, v |-> IF neg THEN 0 - mag ELSE mag]

\* str(n) for 0 <= n < 1000, as the ASCII codes of its decimal digits
digits(n) ==
    IF n >= 100 THEN <<48 + (n \div 100), 48 + ((n \div 10) % 10), 48 + (n % 10)>>
    ELSE IF n >= 10 THEN <<48 + (n \div 10), 48 + (n % 10)>>
    ELSE <<48 + n>>
\* str(n) alone, the digits not joined by anything
undotted(n) == digits(n)
\* '.'.join(list(str(n))), as ASCII codes ('.' is 46)
dotted(n) ==
    LET d == digits(n)
    IN  [k \in 1..(2 * Len(d) - 1) |-> IF k % 2 = 1 THEN d[(k + 1) \div 2] ELSE 46]

\* parse_mod: the cursor, and the mod pair (None unless USERPATCH15)
parse_mod(c) ==
    LET cur == c.pos
        \* '<xx{num_players}x36x5xh'
        c1 == unpack(c, IF num_players < 0 THEN -1 ELSE 2 + num_players + 36 + 5 + 2)
        name_length == i16h(cur + 2 + num_players + 36 + 5)
        \* '<{name_length + 1}xIx'
        c2 == unpack(c1, IF name_length + 1 < 0 THEN -1 ELSE name_length + 1 + 4 + 1)
        resources == u32h(c1.pos + name_length + 1)
        c3 == unpack(c2, Mul(resources, 4))                   \* values
        c4 == seek(c3, cur)
        x == F32Int(bytesh(c2.pos + 4 * 198, 4))
        number == x.v
        e == IF version # "USERPATCH15" THEN NoErr
             ELSE IF resources <= 198 THEN "IndexError"
             ELSE x.err
    IN  [c |-> raise(c4, e),
         mod |-> IF version = "USERPATCH15" /\ c4.err = NoErr /\ e = NoErr
                 THEN [major |-> number \div 1000, minor |-> dotted(number % 1000)]
                 ELSE None]

Gaia == <<71, 97, 105, 97>>
GAIA == <<71, 65, 73, 65>>

\* lines 856-866: the seek to the players and the call of parse_mod
\* a rev chosen by the edition: 43 for a legacy header, else 7 + 4 num_players
rev_by_edition == IF version \in {"DE", "HD"} THEN 7 + (num_players * 4) ELSE 43
\* lines 860-862: rev is 43, and 7 + 4 num_players from save 61.5 on
rev == IF save >= 6150 THEN 7 + (num_players * 4) ELSE 43

parse_players ==
    /\ pc = "parse_players"
    /\ start' = pos
    /\ LET cur == pos
           gaia == IF version \in {"DE", "HD"} THEN Gaia ELSE GAIA
           anchor == find(<<5, 0>> \o gaia \o <<0>>, cur, 0)
           target == cur + anchor - num_players - rev
           c1 == seek(read(Begin, -1), target)
           r == parse_mod(c1)
       IN  /\ Step(r.c, "parse_player")
           /\ loc' = [mod |-> r.mod, number |-> 0, target |-> target]
    /\ players' = <<>>
    /\ UNCHANGED <<stay, num_players, de, hd, lobby, result>>

\* parse_player, lines 137-157: the fixed fields, then the search for the
\* start of the objects in data = header[offset:]
object_start == Re(<<11, 0, 0, 0, 0, 0, 2, 0, 0>>, {3})
parse_player ==
    /\ pc = "parse_player" /\ loc.number < num_players
    /\ LET rep == IF save >= 6150 THEN num_players ELSE 9
           \* '<bx{num_players}x{rep}i5xh': type, diplomacy, name_length
           c1 == unpack(Cur, 1 + 1 + num_players + 4 * rep + 5 + 2)
           name_length == i16h(c1.pos - 2)
           \* '<{name_length - 1}s2xIx': name, resources
           c2 == unpack(c1, IF name_length - 1 < 0 THEN -1
                            ELSE name_length - 1 + 2 + 4 + 1)
           resources == u32h(c1.pos + name_length - 1 + 2)
           c3 == read(c2, Mul(resources, IF save >= 6300 THEN 8 ELSE 4))
           \* '<xff9xb3xbx': start_x, start_y, civilization_id, color_id
           c4 == unpack(c3, 1 + 4 + 4 + 9 + 1 + 3 + 1 + 1)
           offset == c4.pos
           m == First(object_start, offset, Len(header))
           c5 == IF c4.err = NoErr /\ m < 0 THEN raise(read(c4, -1), "RuntimeError")
                 ELSE read(c4, -1)
       IN  /\ Step(c5, "object_block")
           /\ loc' = [mod |-> loc.mod, number |-> loc.number, target |-> loc.target,
                      name |-> bytesh(c1.pos, name_length - 1),
                      data |-> offset,            \* data is header[offset:]
                      pos |-> m + 9 - offset,     \* start = object_start.end()
                      index |-> 0, end |-> 0, offset |-> 0, objects |-> <<>>]
    /\ UNCHANGED <<stay, num_players, de, hd, players, lobby, result, start>>

\* an object whose instance_id is taken four bytes early
parse_object_early(p) ==
    [class_id |-> I8(header, p), object_id |-> U16(header, p + 2),
     instance_id |-> bytesh(p + 14, 4), at |-> p]

\* the object parse_object decodes at index p of header
parse_object(p) ==
    [class_id |-> I8(header, p), object_id |-> U16(header, p + 2),
     instance_id |-> bytesh(p + 18, 4), at |-> p]

\* the width of the window REGEXES is searched in
SearchWindow == 10000

\* object_block, lines 99-104: the next object and the next BLOCK_END after pos.
\* Without a match the block is over and the next block starts at pos + end.
object_block ==
    /\ pc = "object_block"
    /\ IF loc.number > 8
       THEN Step(raise(Cur, "KeyError"), "object_block") /\ UNCHANGED loc
       ELSE LET a == loc.data + loc.pos
                match == First(ObjRe(loc.number), a, a + SearchWindow)
                end == find(BLOCK_END, loc.data, loc.pos) - loc.pos + Len(BLOCK_END)
            IN  /\ UNCHANGED <<pos, err, lo, short>>
                /\ IF match < 0
                   THEN /\ loc' = [loc EXCEPT !.pos = loc.pos + end, !.end = end,
                                              !.index = loc.index + 1]
                        /\ pc' = IF loc.index < 2 THEN "object_block" ELSE "player_end"
                   ELSE /\ loc' = [loc EXCEPT !.end = end, !.offset = match - a]
                        /\ pc' = "block_end"
    /\ UNCHANGED <<stay, num_players, de, hd, players, lobby, result, start>>

\* object_block, line 105: the test of the inner loop, when it holds
block_end ==
    /\ pc = "block_end" /\ loc.end + 8 < loc.offset
    /\ pc' = "next_block_end"
    /\ UNCHANGED <<stay, pos, err, lo, short, num_players, de, hd, players, lobby,
                   result, start, loc>>

\* object_block, line 106: the body of the inner loop, the next BLOCK_END
next_block_end ==
    /\ pc = "next_block_end"
    /\ loc' = [loc EXCEPT !.end = loc.end + find(BLOCK_END, loc.data, loc.pos + loc.end)
                                   - (loc.pos + loc.end) + Len(BLOCK_END)]
    /\ pc' = "block_end"
    /\ UNCHANGED <<stay, pos, err, lo, short, num_players, de, hd, players, lobby,
                   result, start>>

\* object_block, lines 107-118: the block ends when the match is just behind
\* its BLOCK_END; else the object is decoded unless it is one of SKIP_OBJECTS
object ==
    /\ pc = "block_end" /\ ~(loc.end + 8 < loc.offset)
    /\ IF loc.end + 8 = loc.offset
       THEN /\ loc' = [loc EXCEPT !.pos = loc.pos + loc.end, !.index = loc.index + 1]
            /\ pc' = IF loc.index < 2 THEN "object_block" ELSE "player_end"
            /\ UNCHANGED <<pos, err, lo, short>>
       ELSE LET p == loc.data + loc.pos + loc.offset
                skip == bytesh(p, 4) = SKIP_OBJECTS
                cut == ~skip /\ ~Has(p, 31)                   \* struct.unpack_from
            IN  /\ Step(IF cut THEN raise(Cur, "struct.error") ELSE Cur, "object_block")
                /\ loc' = [loc EXCEPT
                             !.pos = loc.pos + loc.offset + 31,
                             !.objects = IF skip \/ cut THEN loc.objects
                                         ELSE Append(loc.objects,
                                                     parse_object(p)
                                                     @@ [index |-> loc.index])]
    /\ UNCHANGED <<stay, num_players, de, hd, players, lobby, result, start>>

\* the width of the window PLAYER_END is first searched in
EndWindow == 100

\* a player numbered from 1
player_dict_from_one(number, name, objects, device, found) ==
    [number |-> number + 1, name |-> name, objects |-> objects, device |-> device,
     player_end |-> found]

\* parse_player, lines 194-206: the player it returns, with the device and
\* whether PLAYER_END was found
player_dict(number, name, objects, device, found) ==
    [number |-> number, name |-> name, objects |-> objects, device |-> device,
     player_end |-> found]

\* parse_player, lines 163-206: the end of the blocks, the device byte and
\* the PLAYER_END marker (save >= 37)
player_end ==
    /\ pc = "player_end"
    /\ LET end0 == loc.pos
           end1 == IF bytesh(loc.data + end0 + 8, 2) = BLOCK_END THEN end0 + 10 ELSE end0
           end2 == IF bytesh(loc.data + end1, 2) = BLOCK_END THEN end1 + 2 ELSE end1
           c1 == seek(Cur, loc.data + end2)
           offset == c1.pos
           c2 == read(c1, EndWindow)
           window == bytesh(offset, EndWindow)
           c3 == IF Len(window) <= 8 THEN raise(c2, "IndexError") ELSE c2
           in_window == First(Re(PLAYER_END, {9}), offset, offset + EndWindow)
           offset2 == c3.pos
           beyond == First(Re(PLAYER_END, {9}), offset2, Len(header))
           c4 == IF in_window >= 0 THEN seek(c3, in_window + Len(PLAYER_END))
                 ELSE IF beyond >= 0
                      THEN seek(read(c3, -1), beyond + Len(PLAYER_END))
                 ELSE IF loc.number < num_players - 1
                      THEN raise(read(c3, -1), "RuntimeError")
                 ELSE read(c3, -1)
           c5 == IF save >= 3700 THEN c4 ELSE c1
           device == IF save >= 3700 THEN u8h(offset + 8) ELSE 0
       IN  /\ Step(c5, "parse_player")
           /\ players' = IF c5.err # NoErr THEN players
                         ELSE Append(players,
                                     player_dict(loc.number, loc.name, loc.objects, device,
                                                 save >= 3700 /\
                                                 (in_window >= 0 \/ beyond >= 0)))
           /\ loc' = [mod |-> loc.mod, number |-> loc.number + 1, target |-> loc.target,
                      objects_end |-> offset]
    /\ UNCHANGED <<stay, num_players, de, hd, lobby, result, start>>

\* a * k for k > 0 and a of either sign, saturating at Huge and -Huge
SMul(a, k) == IF a < 0 THEN 0 - Mul(0 - a, k) ELSE Mul(a, k)

\* lines 867-877: the search for the points version, from the saved position
points_version ==
    /\ pc = "parse_player" /\ ~(loc.number < num_players)
    /\ LET cur == pos
           pv == IF save >= 6150 THEN <<102, 102, 6, 64>> ELSE <<0, 0, 0, 64>>
           found == find(pv, cur, 0)
           c1 == seek(read(Cur, -1), cur)
       IN  /\ Step(read(c1, found), "points")
           /\ loc' = [mod |-> loc.mod, target |-> loc.target, i |-> 0,
                      points_version |-> found]
    /\ UNCHANGED <<stay, num_players, de, hd, players, lobby, result, start>>

\* lines 878-884: the points of one player
points ==
    /\ pc = "points" /\ loc.i < num_players
    /\ LET c1 == unpack(unpack(Cur, 4), 4)                    \* pver, entries
           c2 == read(c1, 5 + SMul(i32h(pos + 4), 44))
           c3 == unpack(c2, 4)                                \* points
       IN  Step(read(c3, 8 + SMul(i32h(c2.pos), 32)), "points")
    /\ loc' = [loc EXCEPT !.i = loc.i + 1]
    /\ UNCHANGED <<stay, num_players, de, hd, players, lobby, result, start>>

\* the device of the player parsed last
last_device(ps) == ps[Len(ps)].device
\* line 886, players[0][1]: the device parse_player returned for player 0
first_device(ps) == ps[1].device

\* line 886: the players, mod and the device of player 0
players_return ==
    /\ pc = "points" /\ ~(loc.i < num_players)
    /\ Step(IF players = <<>> THEN raise(Cur, "IndexError") ELSE Cur, "parse_scenario")
    /\ loc' = [mod |-> loc.mod,
               device |-> IF players = <<>> THEN 0 ELSE first_device(players)]
    /\ UNCHANGED <<stay, num_players, de, hd, players, lobby, result, start>>

-----------------------------------------------------------------------------
(* parse_scenario                                                          *)

\* aoc_string: an i16 length, then length bytes
aoc_string(c) == read(unpack(c, 2), i16h(c.pos))
\* int_prefixed_string: a u32 length, then length bytes
int_prefixed_string(c) == read(unpack(c, 4), u32h(c.pos))

\* for _ in range(n): aoc_string(data)
RECURSIVE aoc_strings(_, _)
aoc_strings(c, n) == IF n = 0 THEN c ELSE aoc_strings(aoc_string(c), n - 1)

\* struct.pack('<d', settings_version) for the settings version of a DE save
settings_version ==
    IF save >= 6630 THEN <<0, 0, 0, 0, 0, 0, 18, 64>>                      \* 4.5
    ELSE IF save >= 6430 THEN <<102, 102, 102, 102, 102, 102, 16, 64>>     \* 4.1
    ELSE IF save >= 6300 THEN <<51, 51, 51, 51, 51, 51, 15, 64>>           \* 3.9
    ELSE IF save >= 6150 THEN <<205, 204, 204, 204, 204, 204, 12, 64>>     \* 3.6
    ELSE IF save >= 3700 THEN <<0, 0, 0, 0, 0, 0, 12, 64>>                 \* 3.5
    ELSE IF save >= 2621 THEN <<154, 153, 153, 153, 153, 153, 9, 64>>      \* 3.2
    ELSE IF save >= 2616 THEN <<0, 0, 0, 0, 0, 0, 8, 64>>                  \* 3.0
    ELSE IF save >= 2522 THEN <<205, 204, 204, 204, 204, 204, 4, 64>>      \* 2.6
    ELSE IF save >= 2506 THEN <<0, 0, 0, 0, 0, 0, 4, 64>>                  \* 2.5
    ELSE IF save >= 1334 THEN <<51, 51, 51, 51, 51, 51, 3, 64>>            \* 2.4
    ELSE <<154, 153, 153, 153, 153, 153, 1, 64>>                           \* 2.2
\* the f64 1.6
settings_legacy == <<154, 153, 153, 153, 153, 153, 249, 63>>

\* lines 322-331: the version and the first tables
parse_scenario ==
    /\ pc = "parse_scenario"
    /\ start' = pos
    /\ LET c1 == unpack(Begin, 4)                             \* scenario_version
           c2 == read(c1, 4 + (IF save >= 6150 THEN 4 ELSE 0)
                            + (IF save >= 6150 /\ save < 6660 THEN 4 ELSE 0))
       IN  Step(read(read(c2, 16 * 256), 16 * 4), "scenario_players")
    /\ loc' = [mod |-> loc.mod, device |-> loc.device,
               i |-> 0, n |-> IF save >= 6660 THEN 16 ELSE 0]
    /\ UNCHANGED <<stay, num_players, de, hd, players, lobby, result>>

\* lines 333-338: one of the sixteen player entries of a save >= 66.6
scenario_players ==
    /\ pc = "scenario_players" /\ loc.i < loc.n
    /\ Step(read(de_string(de_string(read(Cur, 8))), 4), "scenario_players")
    /\ loc' = [loc EXCEPT !.i = loc.i + 1]
    /\ UNCHANGED <<stay, num_players, de, hd, players, lobby, result, start>>

\* lines 340-366: up to the instructions and the nine strings after them
scenario_strings ==
    /\ pc = "scenario_players" /\ ~(loc.i < loc.n)
    /\ LET c1 == IF save >= 6150 /\ save < 6660 THEN read(Cur, 64) ELSE Cur
           c2 == IF save < 6660
                 THEN read(c1, 16 * (12 + (IF save >= 1334 THEN 4 ELSE 0) + 4))
                 ELSE c1
           c3 == unpack(read(c2, 1), 4)                       \* elapsed_time
           c4 == read(c3, (IF version = "DE" THEN 64 ELSE 0)
                          + (IF save >= 6660 THEN 68 ELSE 0))
           c5 == read(aoc_string(c4), 24)                     \* scenario_filename
           c6 == aoc_string(c5)                               \* instructions
       IN  Step(aoc_strings(c6, 9), "scenario_tables")
    /\ UNCHANGED <<stay, num_players, de, hd, players, lobby, result, loc, start>>

\* lines 367-423: the tables, map_id and difficulty_id, and the seek behind
\* the settings version found in the remainder
scenario_tables ==
    /\ pc = "scenario_tables"
    /\ LET c1 == aoc_strings(read(Cur, 78), 16)
           c2 == read(c1, 196 + 16 * (24 + (IF version \in {"DE", "HD"} THEN 4 ELSE 0)))
           c3 == read(c2, 12672 + (IF version = "DE" THEN 196 ELSE 16 * 332))
           c4 == read(c3, (IF version = "HD" THEN 644 ELSE 0) + 88
                          + (IF version = "HD" THEN 16 ELSE 0))
           c5 == unpack(c4, 8)                                \* map_id, difficulty_id
           c6 == read(c5, -1)                                 \* remainder
           len_remainder == IF c5.pos >= Len(header) THEN 0 ELSE Len(header) - c5.pos
           end == IF version = "DE" THEN find(settings_version, c5.pos, 0) + 8
                  ELSE find(settings_legacy, c5.pos, 0) + 13
       IN  /\ Step(seek_cur(c6, end - len_remainder), "triggers")
           /\ loc' = [mod |-> loc.mod, device |-> loc.device, i |-> 0, n |-> 0,
                      e |-> 0, m |-> 0, remainder |-> c5.pos]
    /\ UNCHANGED <<stay, num_players, de, hd, players, lobby, result, start>>

\* lines 426-428: the number of triggers (DE only)
triggers ==
    /\ pc = "triggers"
    /\ IF version = "DE"
       THEN /\ Step(unpack(read(Cur, 1), 4), "trigger")
            /\ loc' = [loc EXCEPT !.n = u32h(read(Cur, 1).pos)]
       ELSE Step(Cur, "parse_lobby") /\ UNCHANGED loc
    /\ UNCHANGED <<stay, num_players, de, hd, players, lobby, result, start>>

\* lines 431-439: the head of one trigger
trigger ==
    /\ pc = "trigger" /\ loc.i < loc.n
    /\ LET c1 == read(read(Cur, 22), 4)
           c2 == int_prefixed_string(int_prefixed_string(int_prefixed_string(c1)))
       IN  /\ Step(unpack(c2, 4), "effect")                   \* n_effects
           /\ loc' = [loc EXCEPT !.e = 0, !.m = u32h(c2.pos)]
    /\ UNCHANGED <<stay, num_players, de, hd, players, lobby, result, start>>

\* lines 442-446: one effect
effect ==
    /\ pc = "effect" /\ loc.e < loc.m
    /\ Step(int_prefixed_string(int_prefixed_string(read(Cur, 216))), "effect")
    /\ loc' = [loc EXCEPT !.e = loc.e + 1]
    /\ UNCHANGED <<stay, num_players, de, hd, players, lobby, result, start>>

\* lines 448-452: the tail of one trigger
trigger_end ==
    /\ pc = "effect" /\ ~(loc.e < loc.m)
    /\ LET c1 == unpack(read(Cur, Mul(loc.m, 4)), 4)          \* n_condition
       IN  Step(read(c1, Mul(u32h(c1.pos - 4), 125)), "trigger")
    /\ loc' = [loc EXCEPT !.i = loc.i + 1]
    /\ UNCHANGED <<stay, num_players, de, hd, players, lobby, result, start>>

\* lines 454-457: trigger_list_order and the default block
triggers_end ==
    /\ pc = "trigger" /\ ~(loc.i < loc.n)
    /\ Step(read(unpack(Cur, Mul(loc.n, 4)), 1032), "parse_lobby")
    /\ UNCHANGED <<stay, num_players, de, hd, players, lobby, result, loc, start>>

-----------------------------------------------------------------------------
(* parse_lobby                                                             *)

\* a message kept as it was read
strip_nothing(b) == b

\* a strip that removes the NUL bytes at the end only
strip_trailing(b) ==
    LET N == {k \in 1..Len(b) : b[k] # 0}
    IN  IF N = {} THEN <<>>
        ELSE SubSeq(b, 1, CHOOSE k \in N : \A j \in N : j <= k)

\* b.strip(b'\x00'): the NUL bytes at both ends are removed
strip(b) ==
    LET N == {k \in 1..Len(b) : b[k] # 0}
    IN  IF N = {} THEN <<>>
        ELSE SubSeq(b, Minimum(N), CHOOSE k \in N : \A j \in N : j <= k)

\* lines 212-243: the reads before the chat
parse_lobby ==
    /\ pc = "parse_lobby"
    /\ start' = pos
    /\ LET c1 == IF version = "DE"
                 THEN read(Begin, 5 + (IF save >= 2006 THEN 9 ELSE 0)
                                    + (IF save >= 2616 THEN 5 ELSE 0)
                                    + (IF save >= 3700 THEN 8 ELSE 0)
                                    + (IF save >= 6430 THEN 16 ELSE 0)
                                    + (IF save >= 6630 THEN 1 ELSE 0))
                 ELSE Begin
           c2 == read(c1, 8 + (IF version \notin {"DE", "HD"} THEN 1 ELSE 0))
           \* 'I4xIIbb': reveal_map_id, map_size, population, game_type_id, lock_teams
           c3 == unpack(c2, 4 + 4 + 4 + 4 + 1 + 1)
           c4 == IF version \in {"DE", "HD"}
                 THEN read(c3, 5 + (IF save >= 1313 THEN 4 ELSE 0)
                                 + (IF save >= 2522 THEN 1 ELSE 0))
                 ELSE c3
       IN  /\ Step(unpack(c4, 4), "chat")                     \* chat_count
           /\ loc' = [mod |-> loc.mod, device |-> loc.device, i |-> 0,
                      n |-> u32h(c4.pos), chat |-> <<>>]
    /\ UNCHANGED <<stay, num_players, de, hd, players, lobby, result>>

\* lines 245-251: one chat message
chat ==
    /\ pc = "chat" /\ loc.i < loc.n
    /\ LET c1 == unpack(Cur, 4)
           length == u32h(pos)
           message == strip(bytesh(c1.pos, length))
       IN  /\ Step(read(c1, length), "chat")
           /\ loc' = IF c1.err # NoErr THEN loc
                     ELSE [loc EXCEPT !.i = loc.i + 1,
                                      !.chat = IF Len(message) > 0 THEN Append(loc.chat, message)
                                               ELSE loc.chat]
    /\ UNCHANGED <<stay, num_players, de, hd, players, lobby, result, start>>

\* lines 252-265: the seed (DE) and the lobby record
lobby_return ==
    /\ pc = "chat" /\ ~(loc.i < loc.n)
    /\ LET c1 == IF version = "DE" THEN unpack(Cur, 4) ELSE Cur
       IN  /\ Step(c1, "return")
           /\ lobby' = IF c1.err # NoErr THEN lobby ELSE [chat |-> loc.chat]
    /\ UNCHANGED <<stay, num_players, de, hd, players, result, loc, start>>

-----------------------------------------------------------------------------
(* parse(): its return, its except clause, and main() of parse_header      *)

\* lines 968-981
return ==
    /\ pc = "return"
    /\ result' = [version |-> version, save_version |-> save,
                  players |-> players, de |-> de, hd |-> hd,
                  mod |-> IF de # None THEN de.dlc_ids ELSE loc.mod,
                  lobby |-> lobby, device |-> loc.device]
    /\ pc' = "returned"
    /\ UNCHANGED <<stay, pos, err, lo, short, num_players, de, hd, players, lobby, loc, start>>

\* what the except clause of parse() catches
Caught == {"struct.error", "zlib.error", "AssertionError", "MemoryError", "ValueError"}
HEXDUMP_CONTEXT == 500

\* _hexdump, lines 17-27, for len bytes of data: one row for each 16 bytes,
\* a row being its offset and whether it carries the marker '>>'
hexdump(len, base_offset, mark) ==
    {[offset |-> base_offset + i,
      marker |-> (base_offset + i <= mark /\ mark < base_offset + i + 16)] :
        i \in {k \in 0..(len - 1) : k % 16 = 0}}

\* lines 955-967: a caught exception is dumped (when there is a header) and
\* becomes a RuntimeError; any other exception leaves parse() as it is
except ==
    /\ pc = "except"
    /\ pc' = "raised"
    /\ IF err \in Caught
       THEN /\ raised' = "RuntimeError"
            /\ IF raw.kind \in {"short", "corrupt"}              \* no header yet
               THEN UNCHANGED <<pos, lo, dump>>
               ELSE LET fail_pos == pos
                        from == Max2(0, fail_pos - HEXDUMP_CONTEXT)
                        c == read(seek(Cur, from), HEXDUMP_CONTEXT * 2)
                    IN  /\ pos' = c.pos /\ lo' = c.lo
                        /\ dump' = [base_offset |-> from,
                                    len |-> Len(bytesh(from, HEXDUMP_CONTEXT * 2)),
                                    mark |-> fail_pos,
                                    rows |-> hexdump(Len(bytesh(from, HEXDUMP_CONTEXT * 2)),
                                                     from, fail_pos)]
       ELSE raised' = err /\ UNCHANGED <<pos, lo, dump>>
    /\ UNCHANGED <<raw, err, cli, version, save, num_players, de, hd, players,
                   lobby, result, loc, start, short>>

\* parse_header.main, lines 77-81: a RuntimeError is reported and the exit
\* status is 1; any other exception is not handled; a result is kept
main ==
    /\ pc \in {"returned", "raised"}
    /\ cli = "running"
    /\ cli' = IF pc = "returned" THEN "result"
              ELSE IF raised = "RuntimeError" THEN "exit 1"
              ELSE "unhandled"
    /\ UNCHANGED <<raw, pos, pc, err, raised, version, save, num_players, de, hd,
                   players, lobby, result, loc, start, lo, short, dump>>

-----------------------------------------------------------------------------
(* The recorded games parse() is given.  A header is laid out stage by     *)
(* stage as the stage reads it, from a record p of choices; the bytes the  *)
(* parser skips are zeros, or Filler where zeros would form a pattern.     *)

Filler == 1
DS(b) == <<96, 10>> \o u16(Len(b)) \o b                       \* as de_string reads
HS(b) == u16(Len(b)) \o <<96, 10>> \o b                       \* as hd_string reads
\* b repeated n times
Rep(n, b) == [k \in 1..(n * Len(b)) |-> b[((k - 1) % Len(b)) + 1]]
When(cond, b) == IF cond THEN b ELSE <<>>

\* the f32 of a save version below 37
SaveF32(sv) ==
    CASE sv = 1176 -> <<246, 40, 60, 65>>
      [] sv = 1234 -> <<164, 112, 69, 65>>
      [] sv = 1334 -> <<164, 112, 85, 65>>
      [] sv = 2522 -> <<143, 194, 201, 65>>
      [] sv = 2615 -> <<51, 51, 209, 65>>
      [] sv = 2616 -> <<174, 71, 209, 65>>
      [] sv = 3000 -> <<0, 0, 240, 65>>

\* what parse_version reads: 'VER 9.4', a NUL, the f32 save, and the u32 save
\* of the new style
version_bytes(p) ==
    <<86, 69, 82, 32, 57, 46, 52, 0>> \o
    (IF p.save >= 3700
     THEN MinusOne \o u32(IF p.save = 3700 THEN 37 ELSE (p.save * 65536 + 50) \div 100)
     ELSE SaveF32(p.save))

\* one player slot of the DE block
de_slot_bytes(p) ==
    Z(4 + 4 + 2 + 1 + 9) \o u32(0) \o When(p.save >= 6150, u32(0)) \o
    DS(<<>>) \o Z(1) \o DS(<<>>) \o When(p.save >= 6630, DS(<<>>)) \o
    (IF p.magic THEN DS(<<80>>) ELSE <<96, 11>> \o u16(1) \o <<80>>) \o
    u32(0) \o Z(12) \o When(p.save < 2522, Z(8)) \o Z(1 + 1) \o
    When(p.save >= 2506, Z(8)) \o When(p.save >= 6430, Z(4)) \o
    When(p.save >= 6720, DS(<<>>))

de_empty_bytes(p) ==
    When(p.save >= 6150, Z(4)) \o Z(12) \o DS(<<>>) \o Z(1) \o DS(<<>>) \o DS(<<>>) \o
    Z(38) \o When(p.save >= 6430, Z(4))

\* the DE block: build 7, timestamp p.ts, one dlc id, the ages, de_np slots, one
\* string 'A:B' in the first string block, p.unknown unknown entries, and
\* the trailing timestamp p.ts2
de_bytes(p) ==
    When(p.save >= 2522, u32(7)) \o When(p.save >= 2616, u32(p.ts)) \o
    Z(12) \o u32(1) \o u32(3) \o
    Z(4) \o u32(0) \o Z(4) \o u32(0) \o Z(4) \o
    u32(0) \o u32(0) \o u32(p.age0) \o u32(p.age1) \o
    Z(12) \o Z(4) \o u32(0) \o u32(0) \o u32(p.de_np) \o
    Z(14) \o When(p.save >= 6150, Z(1)) \o Z(2 + 1 + 10 + 12) \o
    When(p.save >= 2506, Z(1)) \o When(p.save > 5000, Z(1)) \o
    Rep(IF 3700 <= p.save /\ p.save < 6630 THEN p.de_np ELSE 8, de_slot_bytes(p)) \o
    Z(12) \o
    When(3700 <= p.save /\ p.save < 6630, Rep(8 - p.de_np, de_empty_bytes(p))) \o
    Z(4 + 1 + 1 + 4 + 1 + 1 + 4 + 1) \o
    u32(0) \o DS(<<65, 58, 66>>) \o u32(1) \o Z(8) \o Rep(20, u32(1)) \o
    (IF p.save < 2522 THEN Z(4 + 236) ELSE u32(0)) \o
    u32(p.unknown) \o Z(4) \o Rep(p.unknown, Z(4) \o DS(<<>>) \o Z(4)) \o
    When(p.save >= 2502, Z(8)) \o Z(16) \o DS(<<>>) \o
    When(p.save >= 2522, Z(8)) \o DS(<<>>) \o Z(33) \o
    When(p.save >= 2006, Z(1)) \o When(p.save >= 2016, Z(8)) \o
    When(p.save >= 2506, Z(21)) \o When(p.save >= 2522, Z(4)) \o
    When(p.save >= 2616, Z(8)) \o When(p.save >= 3700, Z(3)) \o
    When(p.save > 5000, Z(8)) \o When(p.save >= 6150, Z(1)) \o
    When(p.save >= 6300, Z(5)) \o When(p.save >= 6630, u32(0) \o Z(12)) \o
    DS(<<>>) \o When(p.save >= 6720, DS(<<>>) \o DS(<<>>)) \o Z(8) \o
    When(p.save >= 3700, u32(p.ts2) \o u32(0))

\* the HD block: eight slots of which the first two have a name
hd_slot_bytes(named) ==
    Z(4 + 4 + 12) \o u32(0) \o HS(<<>>) \o Z(1) \o HS(<<>>) \o
    HS(IF named THEN <<78>> ELSE <<>>) \o Z(4 + 12 + 8)
hd_bytes(p) ==
    Z(12) \o u32(0) \o Z(4) \o u32(0) \o u32(0) \o Z(80) \o
    Rep(2, hd_slot_bytes(TRUE)) \o Rep(6, hd_slot_bytes(FALSE)) \o
    Z(26) \o HS(<<>>) \o Z(8) \o HS(<<>>) \o Z(8) \o HS(<<>>) \o Z(8) \o Z(16) \o
    HS(<<>>) \o HS(<<>>) \o Z(8) \o HS(<<>>) \o Z(4)

\* the metadata block: ai (with its data and the zero run), num_players
ai_bytes(tag) ==
    CASE tag = "ok" -> <<7, 7, 7>> \o Z(AiRun)
      [] tag = "bare" -> Z(AiRun)
      [] tag = "late" -> <<7>> \o Z(5) \o <<7>> \o Z(AiRun)
      [] tag = "broken" -> <<7, 7, 7>> \o Z(AiRun - 1) \o <<7>>
metadata_bytes(p) ==
    u32(p.ai) \o When(p.ai > 0, ai_bytes(p.airun)) \o
    Z(24 + 4 + 17 + 2) \o i8(p.meta_np) \o Z(1 + 1) \o
    (IF p.save < 6150 THEN Z(60) ELSE Z(24 + p.meta_np * 4))

\* the map: one tile, p.zones zones with one float, one list of one
\* obstruction, a 1 x 1 visibility map
map_bytes(p) ==
    When(p.ver = "DE", Z(8)) \o u32(1) \o u32(1) \o u32(p.zones) \o
    Rep(p.zones, Z(IF p.ver \in {"DE", "HD"} THEN 2048 + 2 ELSE 1275 + 1)
                 \o u32(1) \o Z(4) \o Z(4)) \o
    Z(2) \o Z(IF p.ver # "DE" THEN 4 ELSE IF p.save >= 6200 THEN 10 ELSE 9) \o
    u32(1) \o Z(4) \o Z(4) \o u32(1) \o Z(8) \o
    u32(1) \o u32(1) \o Z(4) \o When(p.save >= 6150, Z(4)) \o u32(0)


\* one object of 31 bytes as parse_object reads it: class, player, object id,
\* the ff ff ff ff of the fingerprint, the instance id; class 0 stands for a
\* stray BLOCK_END with twelve bytes behind it
object_bytes(o, player) ==
    IF o[1] = 0 THEN BLOCK_END \o Fill(12, Filler)
    ELSE <<o[1], player>> \o u16(o[2]) \o <<1, 1>> \o Fill(4, 255) \o Fill(8, 1) \o
         u32(o[3]) \o Fill(9, 1)

RECURSIVE objects_bytes(_, _)
objects_bytes(os, player) ==
    IF os = <<>> THEN <<>>
    ELSE object_bytes(Head(os), player) \o objects_bytes(Tail(os), player)

\* the objects (class, object id, instance id) of the three blocks of player n
objects_of(tag, n) ==
    CASE tag = "two" -> << <<<<70, 5, 100 + n>>>>, <<<<80, 6, 200 + n>>>>, <<>> >>
      [] tag = "dup" -> << <<<<70, 5, 100>>, <<70, 5, 100>>>>, <<<<80, 6, 100>>>>, <<>> >>
      [] tag = "skip" -> << <<<<30, 647, 300>>, <<70, 5, 101>>>>, <<>>, <<>> >>
      [] tag = "stray" -> << <<<<0, 0, 0>>, <<70, 5, 100>>>>, <<<<80, 6, 200>>>>, <<>> >>
      [] tag = "none" -> << <<>>, <<>>, <<>> >>
      [] tag = "odd" -> << <<<<70, 0, 300>>, <<70, 65535, 301>>, <<11, 5, 302>>,
                             <<80, 6, 303>>>>, <<<<20, 7, 304>>>>, <<>> >>
      [] tag = "open" -> << <<<<70, 5, 100 + n>>>>, <<<<80, 6, 200 + n>>>>, <<>> >>
      [] tag = "open_stray" -> << <<<<0, 0, 0>>, <<70, 5, 100 + n>>>>,
                                  <<<<80, 6, 200 + n>>>>, <<>> >>

\* the f32 of the whole number v (0 <= v < 2^24), values[198] of a
\* USERPATCH15 player: 1015.0 is 00 c0 7d 44
ModValue(v) ==
    IF v = 0 THEN Z(4)
    ELSE LET k == CHOOSE j \in 0..23 : 2 ^ j <= v /\ v < 2 ^ (j + 1)
             m == (v - 2 ^ k) * 2 ^ (23 - k)
             e == 127 + k
         IN  <<m % 256, (m \div 256) % 256, (e % 2) * 128 + (m \div 65536), e \div 2>>

\* the 100-byte window behind the objects: the device byte is byte 8, p.dev
\* for player 0 and p.odev for the others
window_bytes(p, n) ==
    Fill(8, Filler) \o <<IF n = 0 THEN p.dev ELSE p.odev>> \o Fill(17 + p.wide, Filler)

\* the 26 bytes that end a player: PLAYER_END when p.dot is 46 ('.')
marker_bytes(p) == Fill(8, 255) \o <<p.dot>> \o Z(16) \o <<11>>

\* player n as parse_player reads it; the last player's window is cut to
\* p.winlen bytes when p.winlen >= 0, and the last player ends behind its
\* first object when p.objs is "open" or "open_stray"
player_bytes(p, n) ==
    LET rep == IF p.save >= 6150 THEN p.np ELSE 9
        name == IF n > 0 \/ ~p.gaia THEN <<66, 111, 98, 33>>
                ELSE IF p.ver \in {"DE", "HD"} THEN Gaia ELSE GAIA
        nres == IF p.ver = "USERPATCH15" THEN 199 ELSE 1
        os == objects_of(p.objs, n)
        last == n = p.np - 1
    IN  <<2>> \o Z(1) \o Z(p.np) \o Z(4 * rep) \o Z(5) \o u16(Len(name) + 1) \o name \o
        Z(2) \o u32(nres) \o Z(1) \o
        Fill((IF p.save >= 6300 THEN 8 ELSE 4) * (nres - 1), Filler) \o
        (IF p.ver = "USERPATCH15" THEN ModValue(p.modv) ELSE Fill(4, Filler)) \o
        When(p.save >= 6300, Fill(4, Filler)) \o
        Z(1 + 8 + 9) \o <<1>> \o Z(3) \o <<n>> \o Z(1) \o
        Fill(3, Filler) \o <<11, 0, 1, 0, 0, 0, 2, 0, 0>> \o
        IF p.objs \in {"open", "open_stray"} /\ last THEN objects_bytes(os[1], n) ELSE
        objects_bytes(os[1], n) \o BLOCK_END \o Fill(8, Filler) \o
        objects_bytes(os[2], n) \o BLOCK_END \o Fill(8, Filler) \o
        objects_bytes(os[3], n) \o BLOCK_END \o
        (IF p.save < 3700 THEN <<>>
         ELSE IF last /\ p.winlen >= 0
              THEN SubSeq(window_bytes(p, n), 1, Min2(p.winlen, Len(window_bytes(p, n))))
         ELSE window_bytes(p, n) \o When(~last \/ p.last_marker, marker_bytes(p)))

RECURSIVE players_bytes(_, _)
players_bytes(p, n) ==
    IF n = p.np THEN <<>> ELSE player_bytes(p, n) \o players_bytes(p, n + 1)

\* the points of the players, behind the points version
points_bytes(p) ==
    Fill(2, Filler) \o
    Rep(p.np, (IF p.save >= 6150 THEN <<102, 102, 6, 64>> ELSE <<0, 0, 0, 64>>)
              \o u32(0) \o Z(5) \o u32(0) \o Z(8))

\* one trigger with a description, one effect with a text, one condition
trigger_bytes ==
    Z(22) \o Z(4) \o u32(1) \o <<100>> \o u32(0) \o u32(0) \o u32(1) \o
    Z(216) \o u32(1) \o <<116>> \o u32(0) \o Z(4) \o u32(1) \o Z(125)

\* the scenario: empty strings, the settings version (when p.anchor), and
\* for DE p.triggers triggers
scenario_bytes(p) ==
    LET sv == IF p.save >= 6630 THEN <<0, 0, 0, 0, 0, 0, 18, 64>>
              ELSE IF p.save >= 3700 THEN <<0, 0, 0, 0, 0, 0, 12, 64>>
              ELSE IF p.save >= 2621 THEN <<154, 153, 153, 153, 153, 153, 9, 64>>
              ELSE IF p.save >= 2616 THEN <<0, 0, 0, 0, 0, 0, 8, 64>>
              ELSE <<205, 204, 204, 204, 204, 204, 4, 64>>
    IN  Z(4) \o Z(4) \o When(p.save >= 6150, Z(4)) \o
        When(p.save >= 6150 /\ p.save < 6660, Z(4)) \o
        Z(16 * 256) \o Z(16 * 4) \o
        When(p.save >= 6660, Rep(16, Z(8) \o DS(<<>>) \o DS(<<>>) \o Z(4))) \o
        When(p.save >= 6150 /\ p.save < 6660, Z(64)) \o
        When(p.save < 6660, Z(16 * (12 + (IF p.save >= 1334 THEN 4 ELSE 0) + 4))) \o
        Z(1) \o Z(4) \o When(p.ver = "DE", Z(64)) \o When(p.save >= 6660, Z(68)) \o
        u16(0) \o Z(24) \o u16(0) \o Rep(9, u16(0)) \o Z(78) \o Rep(16, u16(0)) \o
        Z(196) \o Z(16 * (24 + (IF p.ver \in {"DE", "HD"} THEN 4 ELSE 0))) \o
        Z(12672) \o (IF p.ver = "DE" THEN Z(196) ELSE Z(16 * 332)) \o
        When(p.ver = "HD", Z(644)) \o Z(88) \o When(p.ver = "HD", Z(16)) \o
        u32(0) \o u32(0) \o Fill(2, Filler) \o
        (IF p.ver = "DE"
         THEN When(p.anchor, sv) \o Z(1) \o u32(p.triggers) \o
              Rep(p.triggers, trigger_bytes) \o Z(4 * p.triggers) \o Z(1032)
         ELSE When(p.anchor, settings_legacy \o Z(5)))

\* the chat messages of the lobby
chat_of(tag) ==
    CASE tag = "none" -> <<>>
      [] tag = "hi" -> << <<104, 105>> >>
      [] tag = "nul" -> << <<104, 105>>, <<0, 97, 0>>, <<0, 0>> >>
      [] tag = "inner" -> << <<97, 0, 98, 0>>, <<>> >>

RECURSIVE chat_bytes(_)
chat_bytes(ms) ==
    IF ms = <<>> THEN <<>>
    ELSE u32(Len(Head(ms))) \o Head(ms) \o chat_bytes(Tail(ms))

lobby_bytes(p) ==
    When(p.ver = "DE", Z(5) \o When(p.save >= 2006, Z(9)) \o When(p.save >= 2616, Z(5))
                       \o When(p.save >= 3700, Z(8)) \o When(p.save >= 6430, Z(16))
                       \o When(p.save >= 6630, Z(1))) \o
    Z(8) \o When(p.ver \notin {"DE", "HD"}, Z(1)) \o Z(18) \o
    When(p.ver \in {"DE", "HD"}, Z(5) \o When(p.save >= 1313, Z(4))
                                 \o When(p.save >= 2522, Z(1))) \o
    u32(Len(chat_of(p.chat))) \o chat_bytes(chat_of(p.chat)) \o
    When(p.ver = "DE", u32(0))

\* the whole header; p.num / NCuts of it is kept, less p.tail bytes
header_bytes(p) ==
    LET front == version_bytes(p) \o When(p.ver = "DE", de_bytes(p)) \o
                 When(p.ver = "HD" /\ p.save > 1234, hd_bytes(p)) \o
                 metadata_bytes(p) \o map_bytes(p) \o
                 When(p.early, <<5, 0>> \o (IF p.ver \in {"DE", "HD"} THEN Gaia ELSE GAIA)
                                \o <<0>>) \o
                 Fill(p.gap, Filler) \o players_bytes(p, 0)
        all == IF p.winlen >= 0 \/ p.objs \in {"open", "open_stray"} THEN front
               ELSE front \o points_bytes(p) \o scenario_bytes(p) \o lobby_bytes(p)
    IN  SubSeq(all, 1, (Len(all) * p.num) \div NCuts - p.tail)


-----------------------------------------------------------------------------
(* The inputs: well-formed recorded games of every edition, and the same   *)
(* with one thing changed.                                                 *)

Editions == {<<"DE", 2522>>, <<"DE", 2615>>, <<"DE", 2616>>, <<"DE", 3000>>,
             <<"DE", 3700>>, <<"DE", 6720>>,
             <<"HD", 1234>>, <<"HD", 1334>>, <<"USERPATCH15", 1176>>}
Main == {<<"DE", 3700>>, <<"DE", 6720>>, <<"HD", 1334>>, <<"USERPATCH15", 1176>>}

Base(e, n) ==
    [ver |-> e[1], save |-> e[2], np |-> n, de_np |-> n, meta_np |-> n,
     age0 |-> 2, age1 |-> 0, magic |-> TRUE, unknown |-> 0, ai |-> 0, zones |-> 0,
     objs |-> "two", last_marker |-> TRUE, gap |-> 3, wide |-> 0, gaia |-> TRUE,
     early |-> FALSE, dot |-> 46, modv |-> 1015, ts |-> 9, ts2 |-> 11, dev |-> 5, odev |-> 6, airun |-> "ok",
     winlen |-> -1, anchor |-> TRUE, triggers |-> 0, chat |-> "none",
     num |-> NCuts, tail |-> 0, cls |-> e[1], kind |-> "ok"]

\* the lengths the last player's window is cut to
WinLens == {0, 5, 8, 9, 30}
\* the bytes added to the window to move PLAYER_END across its end (60) and
\* out of it (80)
Wides == {0, 60, 80}

Plain == {Base(e, n) : e \in Editions, n \in 1..MaxPlayers}
Unsupported == {[Base(<<"DE", 3700>>, 1) EXCEPT !.cls = v] : v \in {"AOK", "AOC", "MCP"}}
Broken == {[Base(<<"DE", 3700>>, 1) EXCEPT !.kind = k] : k \in {"short", "corrupt", "nolog"}}
Ages == {[Base(<<"DE", 3700>>, 1) EXCEPT !.age0 = a, !.age1 = b] :
            a \in 0..MaxAge, b \in 0..MaxAge}
Chats == {[Base(e, 1) EXCEPT !.chat = c] : e \in Editions, c \in {"hi", "nul", "inner"}}
Tails == {[Base(e, 1) EXCEPT !.chat = c, !.tail = t] :
            e \in Main, c \in {"none", "hi", "nul"}, t \in 1..MaxTail}
Cuts == {[Base(e, 1) EXCEPT !.num = k] : e \in Main, k \in 0..(NCuts - 1)}
Slots == {[Base(<<"DE", 3700>>, n) EXCEPT !.de_np = m] :
            n \in 1..MaxPlayers, m \in 1..(MaxPlayers + 1)}
Metas == {[Base(e, n) EXCEPT !.meta_np = m] :
            e \in Main, n \in 1..MaxPlayers, m \in (-1)..(MaxPlayers + 1)}
Markers == {[Base(<<"DE", sv>>, n) EXCEPT !.last_marker = lm, !.wide = w] :
            sv \in {3700, 6720}, n \in 1..MaxPlayers, lm \in BOOLEAN, w \in Wides}
Windows == {[Base(<<"DE", 3700>>, n) EXCEPT !.winlen = w] :
            n \in 1..MaxPlayers, w \in WinLens}
Objects == {[Base(e, n) EXCEPT !.objs = t] :
            e \in Main, n \in 1..MaxPlayers,
            t \in {"dup", "skip", "stray", "none", "odd"}}
\* other timestamps at the start and at the end of the DE block
Stamps == {[Base(<<"DE", sv>>, 1) EXCEPT !.ts = t[1], !.ts2 = t[2]] :
           sv \in {2616, 3000, 3700, 6720},
           t \in {<<0, 0>>, <<123456, 0>>, <<0, 654321>>}}
\* other device bytes
Devices == {[Base(<<"DE", sv>>, n) EXCEPT !.dev = d[1], !.odev = d[2]] :
            sv \in {3700, 6720}, n \in 1..MaxPlayers,
            d \in {<<0, 9>>, <<9, 0>>, <<9, 5>>, <<255, 5>>}}
\* the header ends behind the first object of the last player
Open == {[Base(e, n) EXCEPT !.objs = t] :
         e \in Main, n \in 1..MaxPlayers, t \in {"open", "open_stray"}}
\* the byte at the ninth place of the marker is not '.'
Dots == {[Base(<<"DE", 3700>>, n) EXCEPT !.dot = 47] : n \in 1..MaxPlayers}
\* AI data with no bytes before the zero run, with a short zero run before
\* it, and with a run of 4095 zeros only (the next zero run of 4096 is in
\* the scenario, which a header cut inside the last player's window lacks)
AiRuns == {[Base(e, 1) EXCEPT !.ai = a, !.airun = t] :
           e \in Main, a \in {1, 2 ^ 30}, t \in {"bare", "late", "broken"}}
          \cup {[Base(<<"DE", sv>>, 1) EXCEPT !.ai = 1, !.airun = "broken", !.winlen = 100] :
                 sv \in {3700, 6720}}
\* other mod numbers than 1015 in values[198]
ModNumbers == {5, 1000, 1005, 2123}
Mods == {[Base(<<"USERPATCH15", 1176>>, n) EXCEPT !.modv = v] :
         n \in 1..MaxPlayers, v \in ModNumbers}
NoGaia == {[Base(e, n) EXCEPT !.gaia = FALSE] : e \in Main, n \in 1..MaxPlayers}
\* the anchor's bytes also stand right behind the map, before player 0
EarlyGaia == {[Base(e, n) EXCEPT !.early = TRUE] : e \in Main, n \in 1..MaxPlayers}
NoAnchor == {[Base(e, 1) EXCEPT !.anchor = FALSE] : e \in Main}
Extras == UNION {{[Base(e, 1) EXCEPT !.zones = 1], [Base(e, 1) EXCEPT !.ai = 1],
                  [Base(e, 1) EXCEPT !.triggers = 1], [Base(e, 1) EXCEPT !.unknown = 1],
                  [Base(e, 1) EXCEPT !.magic = FALSE]} : e \in Main}

Inputs == Plain \cup Unsupported \cup Broken \cup Ages \cup Chats \cup Tails \cup Cuts
          \cup Slots \cup Metas \cup Markers \cup Windows \cup Objects \cup NoGaia
          \cup EarlyGaia \cup NoAnchor \cup Extras \cup Dots \cup Mods \cup AiRuns \cup Open \cup Devices \cup Stamps

\* the file main() hands to parse(): p.kind tells whether the prefix, the
\* DEFLATE stream and the log version behind it are there
Raw(p) == [kind |-> p.kind, cls |-> p.cls, hdr |-> header_bytes(p), p |-> p]

Init ==
    /\ raw \in {Raw(p) : p \in Inputs}
    /\ pos = 0 /\ pc = "decompress" /\ err = NoErr
    /\ raised = NoErr /\ cli = "running" /\ version = "None" /\ save = 0
    /\ num_players = 0 /\ de = None /\ hd = None /\ players = <<>> /\ lobby = None
    /\ result = None /\ loc = [i |-> 0] /\ start = 0 /\ lo = 0 /\ dump = None
    /\ short = FALSE

Next ==
    \/ decompress \/ parse_version \/ check_version
    \/ parse_de \/ de_players \/ de_after_players \/ de_slots \/ de_after_slots
    \/ de_strings \/ de_after_strings \/ de_unknown \/ de_guid \/ de_return
    \/ parse_hd \/ hd_players \/ hd_return
    \/ parse_metadata
    \/ parse_map \/ map_zones \/ map_tiles \/ map_obs \/ map_return
    \/ parse_players \/ parse_player \/ object_block \/ block_end \/ next_block_end \/ object
    \/ player_end \/ points_version \/ points \/ players_return
    \/ parse_scenario \/ scenario_players \/ scenario_strings \/ scenario_tables
    \/ triggers \/ trigger \/ effect \/ trigger_end \/ triggers_end
    \/ parse_lobby \/ chat \/ lobby_return
    \/ return \/ except \/ main

Spec == Init /\ [][Next]_vars

\* object_block runs on: a turn of its loops that can be taken is taken
SpecFair == Spec /\ WF_vars(object_block \/ block_end \/ next_block_end \/ object)

-----------------------------------------------------------------------------
(* Single calls.  The command line tools (dump, extract, parse_header) load
   the recording with a loader of their own, and dump.main prints a range of
   a section.  A call takes its argument from raw and leaves what it returns
   in loc.                                                                  *)

MaxEntries == 2

\* str.lower() and str.endswith() on a name given by its character codes
lower(s) == [k \in 1..Len(s) |-> IF s[k] >= 65 /\ s[k] <= 90 THEN s[k] + 32 ELSE s[k]]
endswith(s, t) == Len(s) >= Len(t) /\ SubSeq(s, Len(s) - Len(t) + 1, Len(s)) = t
mgz == <<46, 109, 103, 122>>                                       \* '.mgz'
aoe2record == <<46, 97, 111, 101, 50, 114, 101, 99, 111, 114, 100>>  \* '.aoe2record'

\* [n for n in names if n.lower().endswith(e) for one of the extensions e]
candidates(names, exts) ==
    SelectSeq(names, LAMBDA n : \E e \in exts : endswith(lower(n), e))

\* the body the three loaders share: the file is missing (exit 1), is no ZIP
\* archive (the file's own bytes), or is an archive, of which the first
\* candidate is read, or the first entry when there is no candidate
load(file, exts) ==
    IF ~file.exists THEN [exit |-> 1, entry |-> <<>>, whole |-> FALSE, warning |-> FALSE]
    ELSE IF ~file.zip THEN [exit |-> 0, entry |-> <<>>, whole |-> TRUE, warning |-> FALSE]
    ELSE LET found == candidates(file.names, exts)
             mgz_names == IF found = <<>> THEN SubSeq(file.names, 1, Min2(1, Len(file.names)))
                          ELSE found
         IN  IF mgz_names = <<>>
             THEN [exit |-> 1, entry |-> <<>>, whole |-> FALSE, warning |-> FALSE]
             ELSE [exit |-> 0, entry |-> mgz_names[1], whole |-> FALSE,
                   warning |-> Len(mgz_names) > 1]

\* load_mgz_bytes of dump.py, of extract.py and of parse_header.py
dump_load_mgz_bytes(file) == load(file, {mgz, aoe2record})
extract_load_mgz_bytes(file) == load(file, {mgz})
parse_header_load_mgz_bytes(file) == load(file, {mgz})

\* the three tools are run on the same file, one after the other
dump_load ==
    /\ pc = "call" /\ raw.kind = "file"
    /\ loc' = [dump |-> dump_load_mgz_bytes(raw.file)]
    /\ pc' = "extract"
    /\ UNCHANGED <<stay, pos, err, lo, short, num_players, de, hd, players, lobby,
                   result, start>>
extract_load ==
    /\ pc = "extract"
    /\ loc' = [dump |-> loc.dump, extract |-> extract_load_mgz_bytes(raw.file)]
    /\ pc' = "parse_header"
    /\ UNCHANGED <<stay, pos, err, lo, short, num_players, de, hd, players, lobby,
                   result, start>>
parse_header_load ==
    /\ pc = "parse_header"
    /\ loc' = [dump |-> loc.dump, extract |-> loc.extract,
               parse_header |-> parse_header_load_mgz_bytes(raw.file)]
    /\ pc' = "loaded"
    /\ UNCHANGED <<stay, pos, err, lo, short, num_players, de, hd, players, lobby,
                   result, start>>

MaxTotal == 3

\* auto_int, dump.py lines 74-76: int(x, 0) of a text that is an optional
\* '-', an optional '0x' and digits; digits are given by their values
RECURSIVE int(_, _)
int(ds, base) ==
    IF ds = <<>> THEN 0
    ELSE int(SubSeq(ds, 1, Len(ds) - 1), base) * base + ds[Len(ds)]
auto_int(x) == (IF x.neg THEN -1 ELSE 1) * int(x.digits, IF x.hex THEN 16 ELSE 10)

\* data[a:b] for a section of total bytes, as the indices of the bytes it
\* holds: a negative index counts from the end, and both are clamped
index(i, total) == IF i < 0 THEN Max2(i + total, 0) ELSE Min2(i, total)
slice(total, a, b) ==
    [k \in 1..Max2(index(b, total) - index(a, total), 0) |-> index(a, total) + k - 1]

\* hexdump of dump.py, lines 65-71: each byte it is given, with the offset
\* under which the byte is printed
dump_hexdump(data, base_offset) ==
    [k \in 1..Len(data) |-> [byte |-> data[k], offset |-> base_offset + k - 1]]

\* dump.main, lines 101-114, on a section of raw.total bytes
dump_main ==
    /\ pc = "call" /\ raw.kind = "section"
    /\ LET total == raw.total
           offset == auto_int(raw.offset)
           length == auto_int(raw.length)
           clamped == offset + length > total
           n == IF clamped THEN total - offset ELSE length
       IN  loc' = IF offset >= total
                  THEN [exit |-> 1, note |-> FALSE, length |-> length, printed |-> <<>>]
                  ELSE [exit |-> 0, note |-> clamped, length |-> n,
                        printed |-> dump_hexdump(slice(total, offset, offset + n), offset)]
    /\ pc' = "dumped"
    /\ UNCHANGED <<stay, pos, err, lo, short, num_players, de, hd, players, lobby,
                   result, start>>

\* the texts given as --offset and --length: 0, 1, 2 and 10, each with and
\* without '-' and '0x'
Digits == {<<0>>, <<1>>, <<2>>, <<1, 0>>}
Texts == [neg : BOOLEAN, hex : BOOLEAN, digits : Digits]
Sections == {[kind |-> "section", hdr |-> <<>>, total |-> t, offset |-> o, length |-> n] :
               t \in 0..MaxTotal, o \in Texts, n \in Texts}

MaxBuf == 5

\* de_string and hd_string called on a buffer (raw.hdr) with the cursor at
\* raw.at; loc holds what the call returns
de_string_call ==
    /\ pc = "call" /\ raw.kind = "buffer"
    /\ LET c == de_string(Begin)
       IN  /\ pos' = c.pos /\ err' = c.err /\ lo' = c.lo /\ short' = c.short
           /\ loc' = [fn |-> "de_string",
                      value |-> IF c.err = NoErr THEN de_string_value(pos) ELSE <<>>]
    /\ pc' = "done"
    /\ UNCHANGED <<stay, num_players, de, hd, players, lobby, result, start>>
hd_string_call ==
    /\ pc = "call" /\ raw.kind = "buffer"
    /\ LET c == hd_string(Begin)
       IN  /\ pos' = c.pos /\ err' = c.err /\ lo' = c.lo /\ short' = c.short
           /\ loc' = [fn |-> "hd_string",
                      value |-> IF c.err = NoErr THEN hd_string_value(pos) ELSE <<>>]
    /\ pc' = "done"
    /\ UNCHANGED <<stay, num_players, de, hd, players, lobby, result, start>>

\* the buffers: every byte string of up to MaxBuf bytes over five bytes
\* (among them the magic 60 0a and, as a length, 0, 1 and ff ff = -1), with
\* the cursor at 0 or 1
BufBytes == {0, 1, 10, 96, 255}
Buffers ==
    {[kind |-> "buffer", hdr |-> b, at |-> a] :
        b \in UNION {[1..n -> BufBytes] : n \in 0..MaxBuf}, a \in 0..1}

MaxStrings == 2

\* string_block called on a buffer with the cursor at 0
string_block_call ==
    /\ pc = "call" /\ raw.kind = "block"
    /\ LET r == string_block([c |-> Begin, strings |-> <<>>])
       IN  /\ pos' = r.c.pos /\ err' = r.c.err /\ lo' = r.c.lo /\ short' = r.c.short
           /\ loc' = [fn |-> "string_block", strings |-> r.strings]
    /\ pc' = "done"
    /\ UNCHANGED <<stay, num_players, de, hd, players, lobby, result, start>>

\* the blocks: up to MaxStrings entries, each a crc and a DE string, and a
\* last crc; the crcs are 0, 1, 254, 255 and 300
Crcs == {0, 1, 254, 255, 300}
RECURSIVE block_bytes(_)
block_bytes(es) ==
    IF es = <<>> THEN <<>>
    ELSE u32(es[1].crc) \o DS(es[1].str) \o block_bytes(Tail(es))
Blocks ==
    {[kind |-> "block", hdr |-> block_bytes(es) \o u32(t), entries |-> es, last |-> t] :
        es \in UNION {[1..n -> [crc : Crcs, str : {<<>>, <<97>>}]] : n \in 0..MaxStrings},
        t \in Crcs}

\* the names of the entries: a.mgz, B.MGZ, c.aoe2record, d.txt
EntryNames == {<<97>> \o mgz, <<66, 46, 77, 71, 90>>, <<99>> \o aoe2record,
               <<100, 46, 116, 120, 116>>}
\* archives of up to MaxEntries entries with different names
Archives ==
    UNION {{a \in [1..n -> EntryNames] : \A i, j \in 1..n : i # j => a[i] # a[j]} :
             n \in 0..MaxEntries}
Files == {[exists |-> FALSE, zip |-> FALSE, names |-> <<>>],
          [exists |-> TRUE, zip |-> FALSE, names |-> <<>>]}
         \cup {[exists |-> TRUE, zip |-> TRUE, names |-> a] : a \in Archives}

Arguments ==
    {[kind |-> "file", hdr |-> <<>>, file |-> f] : f \in Files} \cup Sections \cup Buffers
    \cup Blocks

InitCalls ==
    /\ raw \in Arguments
    /\ pos = (IF raw.kind = "buffer" THEN raw.at ELSE 0)
    /\ pc = "call" /\ err = NoErr
    /\ raised = NoErr /\ cli = "running" /\ version = "None" /\ save = 0
    /\ num_players = 0 /\ de = None /\ hd = None /\ players = <<>> /\ lobby = None
    /\ result = None /\ loc = [i |-> 0] /\ start = 0 /\ lo = 0 /\ dump = None
    /\ short = FALSE

NextCalls ==
    \/ dump_load \/ extract_load \/ parse_header_load
    \/ dump_main
    \/ de_string_call \/ hd_string_call \/ string_block_call

SpecCalls == InitCalls /\ [][NextCalls]_vars

-----------------------------------------------------------------------------
(* The properties.                                                         *)

\* C1: a parse that fails leaves parse() as a RuntimeError, never as another
\* exception type, and a failed parse has returned no result.
C1_FailureIsRuntimeError ==
    pc = "raised" => (raised = "RuntimeError" /\ result = None)

\* C2: for a save >= 37, a header that is well formed but for the PLAYER_END
\* of its last player (absent from the 100-byte window and from the rest of
\* the buffer) is still parsed: the parse does not fail.
C2_LastMarkerAbsenceTolerated ==
    (/\ raw.p.save >= 3700
     /\ raw.p = [Base(<<raw.p.ver, raw.p.save>>, raw.p.np)
                    EXCEPT !.last_marker = FALSE, !.wide = raw.p.wide])
    => pc \notin {"except", "raised"}

\* C3: a version other than USERPATCH15, HD and DE makes parse() fail with a
\* RuntimeError before any stage has read a byte of the header, and a version
\* that is one of the three is not rejected by the version check.
C3_VersionGate ==
    /\ [](version \in {"AOK", "AOC", "MCP"} =>
            /\ pc \in {"check_version", "except", "raised"}
            /\ pc # "check_version" => (err = "RuntimeError" /\ pos = start)
            /\ pc = "raised" => raised = "RuntimeError"
            /\ de = None /\ hd = None /\ players = <<>> /\ lobby = None
            /\ num_players = 0 /\ result = None /\ dump = None)
    /\ [][pc = "check_version" =>
            /\ pos' = pos
            /\ (pc' = "parse_de") <=> (version \in {"USERPATCH15", "HD", "DE"})]_vars
C3_UnsupportedRaised ==
    pc = "raised" /\ version \in {"AOK", "AOC", "MCP"} /\ raised = "RuntimeError"

\* C4: a read that asks for more bytes than remain makes the parse fail; no
\* parse returns a result after a read has returned fewer bytes than asked.
C4_ShortReadFails ==
    short => pc # "returned"

\* C5: the players of a successful parse are as many as the num_players of
\* the metadata block, and the player at index i has number i, whatever the
\* slot counts of the DE or HD block are.
C5_PlayersMatchMetadata ==
    pc = "returned" =>
        /\ Len(result.players) = num_players
        /\ \A i \in 1..Len(result.players) : result.players[i].number = i - 1
C5_SlotsDifferReturned ==
    /\ pc = "returned" /\ num_players >= 2
    /\ de # None /\ de.players # num_players

\* C6 (as claimed): within the objects of a parsed player no two objects have
\* the same instance_id.
C6_UniqueInstanceIds ==
    \A i \in 1..Len(players) :
        \A j, k \in 1..Len(players[i].objects) :
            j # k => players[i].objects[j].instance_id # players[i].objects[k].instance_id

\* C6 (amended): the objects of a parsed player are the records matched by
\* the three passes, in the order of the passes and never deduplicated: each
\* instance_id is the four bytes at offset 18 of the record it was decoded
\* from, and two objects of one pass were decoded at least 31 bytes apart.
\* Two objects have the same instance_id exactly when those bytes are equal.
C6_ObjectsAsDecoded ==
    \A i \in 1..Len(players) :
        LET os == players[i].objects
        IN  /\ \A j \in 1..Len(os) :
                /\ Len(os[j].instance_id) = 4
                /\ os[j].instance_id = bytesh(os[j].at + 18, 4)
            /\ \A j, k \in 1..Len(os) :
                j < k => /\ os[j].index <= os[k].index
                         /\ os[j].index = os[k].index => os[k].at >= os[j].at + 31
C6_SameIdTwice ==
    \E i \in 1..Len(players) :
        \E j, k \in 1..Len(players[i].objects) :
            /\ j < k
            /\ players[i].objects[j].at # players[i].objects[k].at
            /\ players[i].objects[j].instance_id = players[i].objects[k].instance_id

\* C7: when parse() has returned a result, the cursor is within the header:
\* 0 <= pos <= len(header).
C7_CursorWithinHeader ==
    pc = "returned" => (0 <= pos /\ pos <= Len(header))
C7_ReturnedAtEndAfterShortRead ==
    pc = "returned" /\ short /\ pos = Len(header)

\* C8: while parse() runs, no stage moves the cursor below the position at
\* which the stage began; the seek to the Gaia anchor does not land before
\* the start of the players stage.
C8_NoRewindBeforeStage ==
    /\ pc # "raised" => lo >= start
    /\ pc = "parse_player" => loc.target >= start

\* C9: the starting_age_id and ending_age_id of the DE block are never
\* negative.
C9_AgesNotNegative ==
    de # None => (de.starting_age_id >= 0 /\ de.ending_age_id >= 0)

\* C10: every chat message of the lobby is non-empty and does not end in a
\* NUL byte, and the messages are no more than the chat count that was read.
C10_ChatStripped ==
    lobby # None =>
        /\ Len(lobby.chat) <= loc.n
        /\ \A k \in 1..Len(lobby.chat) :
            /\ lobby.chat[k] # <<>>
            /\ lobby.chat[k][Len(lobby.chat[k])] # 0
C10_MessageDropped ==
    /\ lobby # None
    /\ Len(lobby.chat) >= 1 /\ Len(lobby.chat) < loc.n

\* C11: when the bytes 05 00 + gaia + 00 do not occur between the cursor at
\* which parse_players begins and the end of the header, parse_players fails:
\* it does not go on to the first player, and it has not moved the cursor to
\* a position computed from the result of the search.
C11_AbsentAnchorFails ==
    ("target" \in DOMAIN loc /\ pc # "raised"
     /\ find(<<5, 0>> \o (IF version \in {"DE", "HD"} THEN Gaia ELSE GAIA) \o <<0>>,
             start, 0) = -1)
    => (pc = "except" /\ lo >= start)

\* C12: when the settings-version anchor (the f64 of the save's settings
\* version for DE, the f64 1.6 otherwise) does not occur in the remainder of
\* the header behind the scenario's fixed reads, parse_scenario fails: it does
\* not position the cursor and go on to the triggers and the lobby.
C12_AbsentSettingsAnchorFails ==
    (/\ "remainder" \in DOMAIN loc
     /\ find(IF version = "DE" THEN settings_version ELSE settings_legacy,
             loc.remainder, 0) = -1)
    => pc \in {"except", "raised"}

\* C13: every failure of parse() on a decompressed header has emitted a hex
\* dump of the header bytes in [max(0, p - 500), min(len, p + 500)), p being
\* the cursor position at the failure, and exactly one row of the dump, the
\* row of 16 bytes that contains p, carries the marker.
C13_DumpWithOneMarkedRow ==
    (pc = "raised" /\ raw.kind \notin {"short", "corrupt"}) =>
        /\ dump # None
        /\ dump.base_offset = Max2(0, dump.mark - 500)
        /\ dump.base_offset + dump.len = Max2(dump.base_offset,
                                              Min2(Len(header), dump.mark + 500))
        /\ \E r \in dump.rows :
            /\ r.marker /\ r.offset <= dump.mark /\ dump.mark < r.offset + 16
            /\ \A q \in dump.rows : q.marker => q = r

\* C14: given the same ZIP archive, the loaders of dump, extract and
\* parse_header return the same entry, and when an entry's name ends (in any
\* letter case) in .mgz or .aoe2record they return the first such entry.
C14_LoadersAgree ==
    (pc = "loaded" /\ raw.file.exists /\ raw.file.zip) =>
        /\ loc.dump.exit = loc.extract.exit /\ loc.dump.entry = loc.extract.entry
        /\ loc.dump.exit = loc.parse_header.exit
        /\ loc.dump.entry = loc.parse_header.entry
        /\ \A k \in 1..Len(raw.file.names) :
            (/\ \E e \in {mgz, aoe2record} : endswith(lower(raw.file.names[k]), e)
             /\ \A j \in 1..(k - 1) :
                 \A e \in {mgz, aoe2record} : ~endswith(lower(raw.file.names[j]), e))
            => (loc.dump.exit = 0 /\ loc.dump.entry = raw.file.names[k])

\* C15: for every offset and length given on the command line, dump either
\* exits with status 1, the offset not being inside the section, or prints
\* exactly the bytes of the section at the indices from offset up to
\* min(offset + length, total), each under its true offset; the notice is
\* given exactly when offset + length > total, and the length it reports is
\* the number of bytes it prints.
C15_DumpPrintsTheRange ==
    pc = "dumped" =>
        LET o == auto_int(raw.offset)
            n == auto_int(raw.length)
            t == raw.total
        IN  \/ loc.exit = 1 /\ ~(0 <= o /\ o < t)
            \/ /\ loc.exit = 0
               /\ Len(loc.printed) = Max2(Min2(o + n, t) - o, 0)
               /\ \A k \in 1..Len(loc.printed) :
                   /\ loc.printed[k].byte = o + k - 1
                   /\ loc.printed[k].offset = loc.printed[k].byte
               /\ loc.note <=> (o + n > t)
               /\ loc.length = Len(loc.printed)

\* C16: the stages of parse() run in the order decompress, version, DE, HD,
\* metadata, map, players, scenario, lobby, each at most once: a step stays
\* within its stage without going back to the stage's first step, or goes to
\* the first step of the next stage, or to the except clause.  The first step
\* of a stage begins at the cursor as it then stands.  A gated-off stage (the
\* DE block of a version that is not DE, the HD block unless the version is
\* HD and save > 12.34) leaves the cursor where it is and yields None, which
\* is what parse() returns for it.
StageEntry ==
    <<"decompress", "parse_version", "parse_de", "parse_hd", "parse_metadata",
      "parse_map", "parse_players", "parse_scenario", "parse_lobby", "return", "except">>
Stage(l) ==
    CASE l = "decompress" -> 1
      [] l \in {"parse_version", "check_version"} -> 2
      [] l \in {"parse_de", "de_players", "de_slots", "de_strings", "de_unknown",
                "de_return"} -> 3
      [] l \in {"parse_hd", "hd_players"} -> 4
      [] l = "parse_metadata" -> 5
      [] l \in {"parse_map", "map_zones", "map_obs"} -> 6
      [] l \in {"parse_players", "parse_player", "object_block", "block_end",
                "next_block_end",
                "player_end", "points"} -> 7
      [] l \in {"parse_scenario", "scenario_players", "scenario_tables", "triggers",
                "trigger", "effect"} -> 8
      [] l \in {"parse_lobby", "chat"} -> 9
      [] l \in {"return", "returned"} -> 10
      [] l \in {"except", "raised"} -> 11
      [] OTHER -> 0
C16_StagesInOrder ==
    /\ [](Stage(pc) # 0)
    /\ [][\/ pc' = pc
          \/ Stage(pc') = Stage(pc) /\ pc' # StageEntry[Stage(pc)]
          \/ Stage(pc') = Stage(pc) + 1 /\ pc' = StageEntry[Stage(pc')]
          \/ pc' = "except"]_vars
    /\ [][(Stage(pc) \in 3..9 /\ pc = StageEntry[Stage(pc)]) => start' = pos]_vars
    /\ [][(pc = "parse_de" /\ version # "DE") =>
              (pos' = pos /\ de' = None /\ pc' = "parse_hd")]_vars
    /\ [][(pc = "parse_hd" /\ ~(version = "HD" /\ save > 1234)) =>
              (pos' = pos /\ hd' = None /\ pc' = "parse_metadata")]_vars
    /\ [](pc = "returned" =>
              /\ version # "DE" => result.de = None
              /\ ~(version = "HD" /\ save > 1234) => result.hd = None)
C16_GatedHDReturned ==
    /\ pc = "returned" /\ version = "HD" /\ save <= 1234
    /\ result.hd = None /\ result.de = None

\* C17: for a save >= 37, when the 26 literal bytes of PLAYER_END occur
\* between the cursor behind a player's objects and the end of the header,
\* parse_player leaves the cursor right behind their first occurrence, be it
\* inside the 100-byte window, beyond it or across its end; and a player's
\* end marker is only ever found at an occurrence of the literal bytes.
C17_LiteralMarkerFound ==
    (pc = "parse_player" /\ "objects_end" \in DOMAIN loc /\ save >= 3700) =>
        LET L == First(Lit(PLAYER_END), loc.objects_end, Len(header))
        IN  /\ L >= 0 => pos = L + Len(PLAYER_END)
            /\ players[Len(players)].player_end => L >= 0

\* C18 (as claimed): de_string reads an i16 length len, then the magic 60 0a,
\* then len bytes: on a buffer that holds these at the cursor it returns the
\* len bytes and has consumed len + 4 bytes, and it fails when the two bytes
\* behind the length are not 60 0a.
C18_LengthBeforeMagic ==
    (pc = "done" /\ loc.fn = "de_string") =>
        LET p == raw.at
            len == I16(header, p)
        IN  /\ (/\ Has(p, 4) /\ len >= 0 /\ Has(p, 4 + len)
                /\ Slice(header, p + 2, p + 4) = <<96, 10>>)
               => (/\ err = NoErr /\ pos = p + len + 4
                   /\ loc.value = Slice(header, p + 4, p + 4 + len))
            /\ (Has(p, 4) /\ Slice(header, p + 2, p + 4) # <<96, 10>>) => err # NoErr

\* C18 (amended): de_string reads the magic 60 0a first, then an i16 length
\* len, then len bytes; hd_string reads the length, then the magic, then the
\* bytes.  Either returns the len bytes and has consumed len + 4 bytes when
\* the buffer holds that layout at the cursor; either fails with ValueError
\* when the two bytes it reads as the magic are not 60 0a (or are not there),
\* and with struct.error when the magic is there but the length is cut short
\* or negative or fewer than len bytes follow.
C18_MagicBeforeLength ==
    (pc = "done" /\ loc.fn \in {"de_string", "hd_string"}) =>
        LET p == raw.at
            de_ == loc.fn = "de_string"
            magic_at == IF de_ THEN p ELSE p + 2
            len_at == IF de_ THEN p + 2 ELSE p
            len == I16(header, len_at)
            magic ==
                Has(magic_at, 2) /\ Slice(header, magic_at, magic_at + 2) = <<96, 10>>
            whole == Has(p, 4) /\ len >= 0 /\ Has(p, 4 + len)
        IN  /\ (magic /\ whole) =>
                (/\ err = NoErr /\ pos = p + len + 4
                 /\ loc.value = Slice(header, p + 4, p + 4 + len))
            /\ (magic /\ ~whole) => err = "struct.error"
            /\ (~magic /\ (de_ \/ Has(p, 2))) => err = "ValueError"
            /\ (~magic /\ ~de_ /\ ~Has(p, 2)) => err = "struct.error"
            /\ err # NoErr => loc.value = <<>>
C18_PayloadReturned ==
    /\ pc = "done" /\ loc.fn = "de_string" /\ err = NoErr
    /\ Len(loc.value) >= 1 /\ pos = raw.at + 4 + Len(loc.value)

\* the crcs of a block in the order they stand, the last crc included, and
\* the bytes taken by the first k entries
block_crc(k) == IF k <= Len(raw.entries) THEN raw.entries[k].crc ELSE raw.last
RECURSIVE block_size(_)
block_size(k) == IF k = 0 THEN 0 ELSE block_size(k - 1) + 8 + Len(raw.entries[k].str)

\* C19 (as claimed): string_block reads the entries for as long as the crc in
\* front of each lies strictly between 0 and 255; the first crc that does not
\* ends the block, and the cursor is left in front of that crc.
C19_ReadsWhileInside ==
    (pc = "done" /\ loc.fn = "string_block") =>
        LET n == Len(raw.entries)
            K == CHOOSE k \in 1..(n + 1) :
                    /\ (k <= n => ~(0 < block_crc(k) /\ block_crc(k) < 255))
                    /\ \A j \in 1..(k - 1) : 0 < block_crc(j) /\ block_crc(j) < 255
        IN  /\ err = NoErr
            /\ loc.strings = [j \in 1..(K - 1) |-> raw.entries[j].str]
            /\ pos = block_size(K - 1)

\* C19 (amended): string_block reads an entry behind every crc that is 0 or
\* at least 255, and ends the block at the first crc strictly between 0 and
\* 255, which it has consumed: the cursor is left behind that crc.  When no
\* crc of the buffer lies strictly between 0 and 255 it fails.
C19_ReadsUntilInside ==
    (pc = "done" /\ loc.fn = "string_block") =>
        LET n == Len(raw.entries)
            Ends == {k \in 1..(n + 1) : 0 < block_crc(k) /\ block_crc(k) < 255}
            K == Minimum(Ends)
        IN  IF Ends = {} THEN err # NoErr
            ELSE /\ err = NoErr
                 /\ loc.strings = [j \in 1..(K - 1) |-> raw.entries[j].str]
                 /\ pos = block_size(K - 1) + 4
C19_BlockOfStrings ==
    /\ pc = "done" /\ loc.fn = "string_block" /\ err = NoErr
    /\ Len(loc.strings) >= 2 /\ pos = Len(header)

\* C20 (as claimed): parse_players seeks to cur + anchor - num_players - rev
\* with rev = 43 for a legacy header (neither DE nor HD) and rev = 7 + 4
\* num_players for DE and HD, whatever the save version.
C20_RevByEdition ==
    (pc = "parse_player" /\ loc.number = 0 /\ players = <<>>) =>
        LET gaia == IF version \in {"DE", "HD"} THEN Gaia ELSE GAIA
            anchor == find(<<5, 0>> \o gaia \o <<0>>, start, 0)
        IN  loc.target = start + anchor - num_players
                         - (IF version \in {"DE", "HD"} THEN 7 + 4 * num_players ELSE 43)

\* C20 (amended): parse_players seeks to cur + anchor - num_players - rev
\* with rev = 7 + 4 num_players for a save version >= 61.5 and rev = 43 for
\* every lower save version, whatever the edition; the cursor has been as low
\* as that position when the seek went backwards.
C20_RevBySave ==
    (pc = "parse_player" /\ loc.number = 0 /\ players = <<>>) =>
        LET gaia == IF version \in {"DE", "HD"} THEN Gaia ELSE GAIA
            anchor == find(<<5, 0>> \o gaia \o <<0>>, start, 0)
        IN  /\ loc.target = start + anchor - num_players
                            - (IF save >= 6150 THEN 7 + 4 * num_players ELSE 43)
            /\ lo = Min2(start, loc.target)
C20_OldDESeeksBy43 ==
    /\ pc = "parse_player" /\ loc.number = 0 /\ players = <<>>
    /\ version = "DE" /\ save < 6150
    /\ find(<<5, 0>> \o Gaia \o <<0>>, start, 0) >= 0
    /\ loc.target = start + find(<<5, 0>> \o Gaia \o <<0>>, start, 0) - num_players - 43

\* m without the NUL bytes at its end, and m without the NUL bytes at its
\* beginning
without_trailing_nuls(m) ==
    CHOOSE c \in {SubSeq(m, 1, b) : b \in 0..Len(m)} :
        /\ c = <<>> \/ c[Len(c)] # 0
        /\ \A k \in (Len(c) + 1)..Len(m) : m[k] = 0
without_leading_nuls(m) ==
    CHOOSE c \in {SubSeq(m, a, Len(m)) : a \in 1..(Len(m) + 1)} :
        /\ c = <<>> \/ c[1] # 0
        /\ \A k \in 1..(Len(m) - Len(c)) : m[k] = 0

\* C21 (as claimed): each chat entry that is read adds to the chat its
\* payload without the payload's trailing NUL bytes (leading and inner NUL
\* bytes are kept), unless nothing is left of it, and the lobby's chat is the
\* sequence so collected.
C21_TrailingNulsRemoved ==
    /\ [][(pc = "chat" /\ pc' = "chat") =>
            LET m == without_trailing_nuls(bytesh(pos + 4, u32h(pos)))
            IN  loc'.chat = IF m = <<>> THEN loc.chat ELSE Append(loc.chat, m)]_vars
    /\ [][(pc = "chat" /\ pc' = "return") => lobby' = [chat |-> loc.chat]]_vars

\* C21 (amended): each chat entry that is read adds to the chat its payload
\* without the NUL bytes at both of its ends (only inner NUL bytes are kept),
\* unless nothing is left of it; the lobby's chat is the sequence so
\* collected, in the order of the entries.
C21_OuterNulsRemoved ==
    /\ [][(pc = "chat" /\ pc' = "chat") =>
            LET m == without_leading_nuls(without_trailing_nuls(bytesh(pos + 4, u32h(pos))))
            IN  /\ loc'.i = loc.i + 1
                /\ loc'.chat = IF m = <<>> THEN loc.chat ELSE Append(loc.chat, m)]_vars
    /\ [][(pc = "chat" /\ pc' = "return") => lobby' = [chat |-> loc.chat]]_vars
C21_LeadingNulRemoved ==
    /\ pc = "returned" /\ raw.p.chat = "nul" /\ loc.n = 3
    /\ lobby.chat = << <<104, 105>>, <<97>> >>

\* the decimal digits of n >= 0 as ASCII codes, and a text with '.' (46)
\* between each two of its characters
RECURSIVE decimal(_)
decimal(n) == IF n < 10 THEN <<48 + n>> ELSE decimal(n \div 10) \o <<48 + (n % 10)>>
RECURSIVE joined_by_dots(_)
joined_by_dots(t) ==
    IF Len(t) <= 1 THEN t ELSE <<t[1], 46>> \o joined_by_dots(Tail(t))

\* C22 (as claimed): for USERPATCH15 parse_mod returns (n div 1000, the plain
\* decimal text of n mod 1000) for the whole number n of values[198], for
\* the other versions None, and leaves the cursor where it was; the pair is
\* the mod of the result.
C22_MinorPlainDecimal ==
    /\ [][(pc = "parse_players" /\ pc' = "parse_player") =>
            /\ pos' = loc'.target
            /\ loc'.mod = IF version = "USERPATCH15"
                          THEN [major |-> raw.p.modv \div 1000,
                                minor |-> decimal(raw.p.modv % 1000)]
                          ELSE None]_vars
    /\ [](pc = "returned" /\ version = "USERPATCH15" =>
            result.mod = [major |-> raw.p.modv \div 1000,
                          minor |-> decimal(raw.p.modv % 1000)])

\* C22 (amended): for USERPATCH15 parse_mod returns (n div 1000, the decimal
\* digits of n mod 1000 joined by '.') for the whole number n of values[198]
\* (1015 gives (1, "1.5")), for the other versions None, and leaves the
\* cursor where it was; the pair is the mod of the result.
C22_MinorDigitsDotted ==
    /\ [][(pc = "parse_players" /\ pc' = "parse_player") =>
            /\ pos' = loc'.target
            /\ loc'.mod = IF version = "USERPATCH15"
                          THEN [major |-> raw.p.modv \div 1000,
                                minor |-> joined_by_dots(decimal(raw.p.modv % 1000))]
                          ELSE None]_vars
    /\ [](pc = "returned" /\ version = "USERPATCH15" =>
            result.mod = [major |-> raw.p.modv \div 1000,
                          minor |-> joined_by_dots(decimal(raw.p.modv % 1000))])
C22_Mod2123Returned ==
    /\ pc = "returned" /\ version = "USERPATCH15" /\ raw.p.modv = 2123
    /\ result.mod = [major |-> 2, minor |-> <<49, 46, 50, 46, 51>>]

\* the indexes t >= a of header at which a run of zeros begins (header[t] is
\* zero and t is a or header[t - 1] is not zero) that is at least AiRun long
long_zero_runs(a) ==
    {t \in a..(Len(header) - AiRun) :
        /\ B(header, t) = 0
        /\ t > a => B(header, t - 1) # 0
        /\ ~ \E k \in 1..(AiRun - 1) : B(header, t + k) # 0}
\* the bytes parse_metadata reads behind the AI data
metadata_rest(np) == 50 + (IF save < 6150 THEN 60 ELSE 24 + 4 * np)

\* C23: once the ai field is read, parse_metadata with ai = 0 reads on right
\* behind the field; with ai # 0 it reads on 4096 bytes behind the first
\* byte of the earliest run of 4096 zeros behind the field, also when that
\* run is longer, and raises RuntimeError when there is no such run.
C23_AiEndBehindFirstRun ==
    [][(pc = "parse_metadata" /\ Has(pos, 4)) =>
         LET offset == pos + 4
             runs == long_zero_runs(offset)
             after == IF u32h(pos) = 0 THEN offset ELSE Minimum(runs) + AiRun
         IN  IF u32h(pos) # 0 /\ runs = {}
             THEN pc' = "except" /\ err' = "RuntimeError"
             ELSE /\ err' # "RuntimeError"
                  /\ pc' = "parse_map" =>
                       pos' = Min2(Len(header), after + metadata_rest(num_players'))]_vars
C23_LateRunFound ==
    /\ pc = "parse_map" /\ raw.p.ai # 0 /\ raw.p.airun = "late"
    /\ pos = start + 4 + 7 + AiRun + metadata_rest(num_players)
    /\ B(header, start + 4 + 7 + AiRun) = 0

\* C24: the three object_block calls of a player come to an end, by a
\* return or by an exception, whatever the buffer holds: also when an
\* object is matched and no BLOCK_END follows.
C24_ObjectBlockTerminates ==
    (pc \in {"object_block", "block_end", "next_block_end"})
        ~> (pc \in {"player_end", "except"})

\* the record o of player p stands for the 31 bytes at o.at of header, which
\* begin with an object's fingerprint
decoded_at_fingerprint(o, p) ==
    LET a == o.at
    IN  /\ B(header, a) \in {10, 30, 70, 80, 20}
        /\ B(header, a + 1) = p
        /\ <<B(header, a + 6), B(header, a + 7), B(header, a + 8), B(header, a + 9)>>
               = <<255, 255, 255, 255>>
        /\ B(header, a + 10) # 255
        /\ o.class_id = B(header, a)
        /\ o.object_id = B(header, a + 2) + 256 * B(header, a + 3)
        /\ o.object_id \notin {0, 65535}
        /\ <<B(header, a), B(header, a + 1), B(header, a + 2), B(header, a + 3)>>
               # <<30, 0, 135, 2>>

\* C25: every object record of player p was decoded where the fingerprint of
\* an object of p begins (a class byte of CLASSES, the byte p, ff ff ff ff at
\* +6..+9, not ff at +10), has that class, an object id that is neither 0
\* nor ffff, does not begin with 1e 00 87 02, and carries the number of the
\* pass (0, 1, 2) that found it.
C25_ObjectsAtFingerprints ==
    /\ [](/\ \A i \in 1..Len(players) : \A j \in 1..Len(players[i].objects) :
               /\ decoded_at_fingerprint(players[i].objects[j], players[i].number)
               /\ players[i].objects[j].index \in 0..2
          /\ pc \in {"object_block", "block_end", "next_block_end", "player_end"} =>
               \A j \in 1..Len(loc.objects) :
                   /\ decoded_at_fingerprint(loc.objects[j], loc.number)
                   /\ loc.objects[j].index <= loc.index)
    /\ [][(pc = "block_end" /\ pc' = "object_block"
           /\ Len(loc'.objects) # Len(loc.objects)) =>
            /\ loc'.objects = Append(loc.objects, loc'.objects[Len(loc'.objects)])
            /\ loc'.objects[Len(loc'.objects)].index = loc.index
            /\ loc'.objects[Len(loc'.objects)].at = loc.data + loc.pos + loc.offset]_vars
C25_OddObjectsPassedOver ==
    /\ pc = "returned" /\ raw.p.objs = "odd"
    /\ [j \in 1..Len(players[1].objects) |->
           <<players[1].objects[j].class_id, players[1].objects[j].object_id,
             players[1].objects[j].index>>] = << <<80, 6, 0>>, <<20, 7, 1>> >>

\* C26: the device of the result is the device of player 0 alone: byte 8 of
\* the 100 bytes read behind the objects of player 0 from save 37 on, and 0
\* below; the device bytes of the other players do not change it.
C26_DeviceOfPlayerZero ==
    /\ [][(pc = "player_end" /\ pc' = "parse_player") =>
            players'[Len(players')].device =
                IF save >= 3700 THEN B(header, loc'.objects_end + 8) ELSE 0]_vars
    /\ [](pc = "returned" =>
            /\ result.device = players[1].device
            /\ players[1].number = 0
            /\ save < 3700 => result.device = 0
            /\ raw.p \in Devices => result.device = raw.p.dev)
C26_OtherDeviceIgnored ==
    /\ pc = "returned" /\ Len(players) = 2
    /\ players[2].device = 0 /\ result.device = 9

\* C27: the timestamp of the DE record is None below save 26.16, the u32
\* read at the start of the DE block (behind the build) from 26.16 up to 37,
\* and from 37 on the first u32 of the pair read at the end of the DE
\* block, which takes the place of the value read at the start.
C27_TimestampBySave ==
    /\ [][(pc = "parse_de" /\ pc' = "de_players") =>
            loc'.timestamp = IF save < 2616 THEN None ELSE Some(U32(header, pos + 4))]_vars
    /\ [][(pc' = "de_return" /\ pc # "de_return") =>
            loc'.timestamp = IF save < 3700 THEN loc.timestamp
                             ELSE Some(U32(header, pos' - 8))]_vars
    /\ [][(pc = "de_return" /\ pc' # "except") => de'.timestamp = loc.timestamp]_vars
    /\ [](pc = "returned" /\ version = "DE" =>
            /\ result.de = de
            /\ de.timestamp = IF save < 2616 THEN None
                              ELSE IF save < 3700 THEN Some(raw.p.ts)
                              ELSE Some(raw.p.ts2))
C27_TimestampReplaced ==
    /\ pc = "returned" /\ save >= 3700 /\ raw.p.ts = 123456 /\ raw.p.ts2 = 0
    /\ result.de.timestamp = Some(0)

=============================================================================
